---- MODULE Spec2Model ----
(***************************************************************************)
(* A model of the Grippy review pipeline: the structured-output retry      *)
(* engine (grippy/retry.py), the finding fingerprint (grippy/schema.py),   *)
(* the diff-line parser, the classifier and the resolver                   *)
(* (grippy/github_review.py), the review graph (grippy/graph.py), the      *)
(* edge store (grippy/persistence.py) and the CI entry point               *)
(* (grippy/review.py).                                                     *)
(*                                                                         *)
(* Text is modelled as a sequence of characters (one-character strings,    *)
(* plus a few keyword tokens), so that strip(), lower(), startswith() and  *)
(* ":".join() are computed, not assumed.                                   *)
(***************************************************************************)
EXTENDS Integers, Sequences, FiniteSets, TLC

VARIABLES
    \* ---- codebase.py: CodebaseIndex.build ----
    ix_table,         \* the codebase_chunks table: whether it exists, its rows
    ix_last,          \* the last build: whether it returned, its count, its chunks
    ix_builds,        \* number of builds so far
    \* ---- navi_bootstrap/engine.py: _write_append ----
    ap_file,          \* the output file: whether it exists, and its lines
    ap_initial,       \* the lines of the file before the first append
    ap_latest,        \* per pack: the content of its most recent append
    ap_ops,           \* number of appends so far
    \* ---- codebase.py: read_file, list_files ----
    ct_path,          \* argument path
    ct_tool,          \* "none" | "read_file" | "list_files": the tool called
    ct_result,        \* what the tool returned
    \* ---- codebase.py: chunk_file ----
    ck_text,          \* the text of the file
    ck_max,           \* argument max_chunk_chars
    ck_overlap_arg,   \* argument overlap
    ck_overlap,       \* overlap after the clamp
    ck_pc,            \* "call" | "loop" | "done"
    ck_pos,           \* char_pos
    ck_chunks,        \* chunks
    \* ---- graph.py: review_to_graph ----
    gr_review,        \* argument review
    gr_graph,         \* the ReviewGraph it returned
    gr_done,          \* the call has returned
    \* ---- review.py: truncate_diff ----
    td_diff,          \* argument diff
    td_max_chars,     \* argument max_chars
    td_done,          \* the call has returned
    td_result,        \* what it returned
    \* ---- retry.py: run_review ----
    max_retries,      \* the max_retries argument
    has_callback,     \* on_validation_error is not None
    attempt,          \* the loop variable of `for attempt in range(...)`
    calls,            \* number of agent.run calls made so far
    contents,         \* the response contents agent.run returned, in order
    errors,           \* errors: list[str]
    last_raw,         \* last_raw
    current_message,  \* current_message
    callback_log,     \* the (attempt, error) pairs on_validation_error received
    rr_pc,            \* "loop" | "returned" | "raised" | "propagated"
    agent_raised,     \* agent.run raised an exception
    rr_result,        \* the review run_review returned
    exc_attempts,     \* ReviewParseError.attempts
    sent_messages,    \* the arguments of the agent.run calls, in order
    \* ---- schema.py: Finding.fingerprint (cached_property) ----
    fp_findings,      \* two Finding instances
    fp_cache,         \* their cached fingerprints ("unset" before first access)
    \* ---- github_review.py: resolve_findings_against_prior ----
    rs_current,       \* argument current
    rs_prior,         \* argument prior
    rs_result,        \* the ResolutionResult ("none" before the call)
    \* ---- github_review.py: parse_diff_lines, classify_findings ----
    df_result,        \* result: dict[str, set[int]]
    df_current_file,  \* current_file ("None" before the first file header)
    df_right_line,    \* right_line
    df_nlines,        \* number of lines of the diff consumed so far
    df_truth,         \* file -> right-side numbers of the '+'/' ' hunk lines read
    df_in_hunk,       \* the diff read so far ends inside a hunk of df_truth_file
    df_truth_file,    \* the file of the last 'diff --git' header read
    df_truth_line,    \* right-side number of the next '+'/' ' line of the hunk
    df_wellformed,    \* the lines read so far form a well-formed unified diff
    cl_findings,      \* argument findings of classify_findings
    cl_diff_lines,    \* argument diff_lines of classify_findings
    cl_result,        \* its result
    \* ---- review.py: _with_timeout ----
    tw_pc,            \* "call" | "installed" | "running" | "cleanup_alarm" |
                      \* "cleanup_handler" | "done"
    tw_timeout,       \* argument timeout_seconds
    tw_now,           \* the clock
    tw_alarm,         \* the time the pending alarm is due, or NoAlarm
    tw_deadline,      \* the deadline of the call: the time its alarm was set for
    tw_pending,       \* SIGALRM was delivered and its handler has not run yet
    tw_handler,       \* the installed SIGALRM handler
    tw_fn,            \* "not_started" | "running" | "returned" | "raised" | "aborted"
    tw_fn_done_at,    \* the time at which fn returned or raised
    tw_exc,           \* the exception that is propagating
    tw_outcome,       \* how the call ended: "none" | "result" | "TimeoutError" | "FnError"
    \* ---- github_review.py: post_review ----
    po_pc,            \* "ready" between calls | "batches" inside the batch loop
    po_calls,         \* number of post_review calls started
    po_pr_number,     \* argument pr_number
    po_head_repo,     \* pr.head.repo.full_name ("None" if pr.head.repo is None)
    po_findings,      \* argument findings
    po_inline,        \* inline
    po_off_diff,      \* off_diff
    po_failed,        \* failed_findings
    po_next,          \* the loop variable i of the batch loop
    po_attempts,      \* the create_review calls of this call: batch and outcome
    po_comments,      \* the issue comments of the PR, in order
    po_result,        \* how the latest call ended: "none" | "returned" | "raised"
    po_summary,       \* the summary the latest returned call built
    po_returned,      \* number of calls that returned
    po_created,       \* number of create_issue_comment calls made by post_review
    po_edited,        \* number of comment.edit calls made by post_review
    \* ---- persistence.py: GrippyStore ----
    node_meta,        \* rows of table node_meta, in insertion order
    edges,            \* rows of table edges, in insertion order
    nodes_table,      \* node_id column of the LanceDB "nodes" table
    st_ops,           \* number of store operations performed
    st_first_session, \* node_id -> session_id of the store_review that inserted it
    st_last_status,   \* node_id -> the last status written for it
    st_stored,        \* the reviews whose graphs were handed to store_review
    st_last_op,       \* the latest operation, and whether it stored a graph again
    st_prev,          \* node_meta and edges as they were before the latest operation
    st_last_store,    \* the store_review call, if the latest operation was one
    \* ---- review.py: main ----
    m_pc,             \* the stage main is at
    m_store_class,    \* what the name GrippyStore is bound to in grippy.review
    m_pr_number,      \* pr_event["pr_number"]
    m_transport,      \* the environment variable GRIPPY_TRANSPORT
    m_has_key,        \* OPENAI_API_KEY is set
    m_prior,          \* the open findings stored for the PR's session before the run
    m_review,         \* the validated review ("none" before the agent ran)
    m_store_calls,    \* the calls main made on the store, in order
    m_comments,       \* the bodies handed to post_comment, in order
    m_failure,        \* the exception that ended the run ("none" if none did)
    m_persist,        \* step 5: "none" | "stored" | "failed"
    m_outputs,        \* the CI outputs were written
    m_exit            \* the exit status ("running" until main ends)

retryVars == <<max_retries, has_callback, attempt, calls, contents, errors,
               last_raw, current_message, callback_log, rr_pc, agent_raised,
               rr_result, exc_attempts, sent_messages>>
fpVars == <<fp_findings, fp_cache>>
resolveVars == <<rs_current, rs_prior, rs_result>>
diffVars == <<df_result, df_current_file, df_right_line, df_nlines, df_truth,
              df_in_hunk, df_truth_file, df_truth_line, df_wellformed>>
classifyVars == <<cl_findings, cl_diff_lines, cl_result>>
timeoutVars == <<tw_pc, tw_timeout, tw_now, tw_alarm, tw_deadline, tw_pending,
                 tw_handler, tw_fn, tw_fn_done_at, tw_exc, tw_outcome>>
postVars == <<po_pc, po_calls, po_pr_number, po_head_repo, po_findings, po_inline,
              po_off_diff, po_failed, po_next, po_attempts, po_comments,
              po_result, po_summary, po_returned, po_created, po_edited>>
storeVars == <<node_meta, edges, nodes_table, st_ops, st_first_session,
               st_last_status, st_stored, st_last_op, st_prev, st_last_store>>
mainVars == <<m_pc, m_store_class, m_pr_number, m_transport, m_has_key, m_prior,
              m_review, m_store_calls, m_comments, m_failure, m_persist,
              m_outputs, m_exit>>
truncateVars == <<td_diff, td_max_chars, td_done, td_result>>
graphVars == <<gr_review, gr_graph, gr_done>>
chunkVars == <<ck_text, ck_max, ck_overlap_arg, ck_overlap, ck_pc, ck_pos, ck_chunks>>
toolsVars == <<ct_path, ct_tool, ct_result>>
appendVars == <<ap_file, ap_initial, ap_latest, ap_ops>>
indexVars == <<ix_table, ix_last, ix_builds>>
vars == <<retryVars, fpVars, resolveVars, diffVars, classifyVars, storeVars,
          mainVars, postVars, timeoutVars,
    truncateVars,
    graphVars,
    chunkVars,
    toolsVars,
    appendVars,
    indexVars>>

\* What a step of one component leaves alone: the other components
notRetry == <<fpVars, resolveVars, diffVars, classifyVars, storeVars, mainVars, postVars,
    timeoutVars,
    truncateVars,
    graphVars,
    chunkVars,
    toolsVars,
    appendVars,
    indexVars>>
notFp == <<retryVars, resolveVars, diffVars, classifyVars, storeVars, mainVars, postVars,
    timeoutVars,
    truncateVars,
    graphVars,
    chunkVars,
    toolsVars,
    appendVars,
    indexVars>>
notResolve == <<retryVars, fpVars, diffVars, classifyVars, storeVars, mainVars, postVars,
    timeoutVars,
    truncateVars,
    graphVars,
    chunkVars,
    toolsVars,
    appendVars,
    indexVars>>
notDiff == <<retryVars, fpVars, resolveVars, classifyVars, storeVars, mainVars, postVars,
    timeoutVars,
    truncateVars,
    graphVars,
    chunkVars,
    toolsVars,
    appendVars,
    indexVars>>
notClassify == <<retryVars, fpVars, resolveVars, diffVars, storeVars, mainVars, postVars,
    timeoutVars,
    truncateVars,
    graphVars,
    chunkVars,
    toolsVars,
    appendVars,
    indexVars>>
notStore == <<retryVars, fpVars, resolveVars, diffVars, classifyVars, mainVars, postVars,
    timeoutVars,
    truncateVars,
    graphVars,
    chunkVars,
    toolsVars,
    appendVars,
    indexVars>>
notMain == <<retryVars, fpVars, resolveVars, diffVars, classifyVars, storeVars, postVars,
    timeoutVars,
    truncateVars,
    graphVars,
    chunkVars,
    toolsVars,
    appendVars,
    indexVars>>
notPost == <<retryVars, fpVars, resolveVars, diffVars, classifyVars, storeVars, mainVars,
    timeoutVars,
    truncateVars,
    graphVars,
    chunkVars,
    toolsVars,
    appendVars,
    indexVars>>
notTimeout == <<retryVars, fpVars, resolveVars, diffVars, classifyVars, storeVars,
                mainVars, postVars,
    truncateVars,
    graphVars,
    chunkVars,
    toolsVars,
    appendVars,
    indexVars>>
notTruncate == <<retryVars, fpVars, resolveVars, diffVars, classifyVars,
    storeVars, mainVars, postVars, timeoutVars,
    graphVars,
    chunkVars,
    toolsVars,
    appendVars,
    indexVars>>
notGraph == <<retryVars, fpVars, resolveVars, diffVars, classifyVars,
    storeVars, mainVars, postVars, timeoutVars, truncateVars,
    chunkVars,
    toolsVars,
    appendVars,
    indexVars>>
notChunk == <<retryVars, fpVars, resolveVars, diffVars, classifyVars,
    storeVars, mainVars, postVars, timeoutVars, truncateVars,
    graphVars,
    toolsVars,
    appendVars,
    indexVars>>
notTools == <<retryVars, fpVars, resolveVars, diffVars, classifyVars,
    storeVars, mainVars, postVars, timeoutVars, truncateVars,
    graphVars, chunkVars,
    appendVars,
    indexVars>>
notAppend == <<retryVars, fpVars, resolveVars, diffVars, classifyVars,
    storeVars, mainVars, postVars, timeoutVars, truncateVars,
    graphVars, chunkVars, toolsVars,
    indexVars>>
notIndex == <<retryVars, fpVars, resolveVars, diffVars, classifyVars,
    storeVars, mainVars, postVars, timeoutVars, truncateVars,
    graphVars, chunkVars, toolsVars, appendVars>>

-----------------------------------------------------------------------------
(* Bounds of the model. *)

MaxRetries == 2
MaxLine == 2
MaxCurrent == 2
MaxPrior == 2
MaxDiffLines == 4
MaxHunkStart == 2
MaxStoreOps == 3
MaxFindings == 2
MaxPostCalls == 2
MaxTimeout == 2
MaxClock == 3
MaxDiffTokens == 4
MaxChars == 24
MaxTextLen == 4
MaxChunkChars == 3
MaxOverlap == 4
MaxPathSegs == 3
MaxAppends == 3
MaxBuilds == 3
MaxBuildChunks == 2

-----------------------------------------------------------------------------
(* Text helpers. *)

SeqRange(s) == {s[i] : i \in 1..Len(s)}

IsSpace(c) == c = " "

RECURSIVE LStrip(_)
LStrip(s) == IF s # <<>> /\ IsSpace(Head(s)) THEN LStrip(Tail(s)) ELSE s

RECURSIVE RStrip(_)
RStrip(s) ==
    IF s # <<>> /\ IsSpace(s[Len(s)]) THEN RStrip(SubSeq(s, 1, Len(s) - 1)) ELSE s

\* str.strip()
Strip(s) == RStrip(LStrip(s))

LowerChar(c) ==
    CASE c = "T" -> "t" [] c = "U" -> "u" [] c = "OPENAI" -> "openai" [] OTHER -> c

\* str.lower()
Lower(s) == [i \in 1..Len(s) |-> LowerChar(s[i])]

\* str.startswith(prefix)
StartsWith(s, prefix) ==
    Len(s) >= Len(prefix) /\ SubSeq(s, 1, Len(prefix)) = prefix

Digits == <<"0", "1", "2", "3", "4", "5", "6", "7", "8", "9">>

\* str(n) for the one-digit integers of the model
Str(n) == <<Digits[n + 1]>>

RECURSIVE Join(_, _)
\* sep.join(parts)
Join(sep, parts) ==
    IF parts = <<>> THEN <<>>
    ELSE IF Len(parts) = 1 THEN parts[1]
    ELSE parts[1] \o sep \o Join(sep, Tail(parts))

\* hashlib.sha256(raw.encode()).hexdigest()[:12], idealised as collision-free:
\* the digest is identified by the text it was computed from.
Sha256Hex12(raw) == <<"sha256">> \o raw

\* {} as a dict
EmptyMap == [x \in {} |-> {}]

\* All sequences over S of length lo..hi
SeqsOf(S, lo, hi) == UNION {[1..n -> S] : n \in lo..hi}

-----------------------------------------------------------------------------
(* retry.py *)

Reviews == {"r1", "r2"}

\* What a text or mapping holds: not JSON at all, JSON that violates the
\* GrippyReview schema, or the JSON of a valid review.
Docs == {"garbage", "badschema"} \cup Reviews

Content(type, blank, fence, whole, inner) ==
    [type |-> type, blank |-> blank, fence |-> fence, whole |-> whole, inner |-> inner]

\* The response contents the agent can return.  A str content has a text as a
\* whole and, when it contains a pair of ``` fences, the text between the
\* first pair (inner): a fence wrapped around a document makes the whole text
\* garbage; a fence inside a string of a JSON document leaves the whole a
\* document and the inner text garbage.
Contents ==
    {Content("review", FALSE, FALSE, r, "garbage") : r \in Reviews}
    \cup {Content("none", FALSE, FALSE, "garbage", "garbage")}
    \cup {Content("dict", FALSE, FALSE, d, "garbage") : d \in Docs \ {"garbage"}}
    \cup {Content("str", TRUE, FALSE, "garbage", "garbage")}
    \cup {Content("str", FALSE, FALSE, d, "garbage") : d \in Docs}
    \cup {Content("str", FALSE, TRUE, "garbage", d) : d \in Docs}
    \cup {Content("str", FALSE, TRUE, r, "garbage") : r \in Reviews}
    \cup {Content("other", FALSE, FALSE, "garbage", "garbage")}

Ok(review) == [ok |-> TRUE, review |-> review, exc |-> "none"]
Raise(exc) == [ok |-> FALSE, review |-> "none", exc |-> exc]

\* A _strip_markdown_fences that leaves the text as it is
KeepMarkdownFences(c) == c.whole

\* _strip_markdown_fences: re.search finds the first fence pair anywhere
StripMarkdownFences(c) == IF c.fence THEN c.inner ELSE c.whole

\* GrippyReview.model_validate(data)
ModelValidate(doc) ==
    IF doc \in Reviews THEN Ok(doc) ELSE Raise("ValidationError")

\* json.loads(text) followed by model_validate
LoadsAndValidate(doc) ==
    IF doc = "garbage" THEN Raise("JSONDecodeError") ELSE ModelValidate(doc)

\* A _parse_response whose None and empty-string cases raise an exception
\* that run_review does not catch
ParseResponseEmptyUncaught(c) ==
    IF c.type = "review" THEN Ok(c.whole)
    ELSE IF c.type = "none" \/ (c.type = "str" /\ c.blank) THEN Raise("AttributeError")
    ELSE IF c.type = "dict" THEN ModelValidate(c.whole)
    ELSE IF c.type = "str" THEN LoadsAndValidate(StripMarkdownFences(c))
    ELSE Raise("TypeError")

\* _parse_response
ParseResponse(c) ==
    IF c.type = "review" THEN Ok(c.whole)
    ELSE IF c.type = "none" THEN Raise("ValueError")
    ELSE IF c.type = "dict" THEN ModelValidate(c.whole)
    ELSE IF c.type = "str" THEN
        IF c.blank THEN Raise("ValueError")
        ELSE LoadsAndValidate(StripMarkdownFences(c))
    ELSE Raise("TypeError")

\* except (json.JSONDecodeError, ValidationError, ValueError, TypeError)
CaughtExceptions == {"JSONDecodeError", "ValidationError", "ValueError", "TypeError"}

\* A loop over range(1, max_retries + 1): one attempt fewer
RetryRangeWithoutFirstTry(n) == 1..n

\* range(1, max_retries + 2)
RetryRange(n) == 1..(n + 1)

UserMessage == [kind |-> "user", error |-> "none", of |-> 0]

\* A retry message that names no error
RetryMessageWithoutError(k, exc) == [kind |-> "retry", error |-> "none", of |-> k]

\* the message built after failed attempt k: it quotes str(e) of that attempt
RetryMessage(k, exc) == [kind |-> "retry", error |-> exc, of |-> k]

NoneContent == Content("none", FALSE, FALSE, "garbage", "garbage")

\* last_raw = str(content)[:2000] if content is not None else "<None>"
LastRaw(c) == [kind |-> IF c.type = "none" THEN "<None>" ELSE "str", of |-> c]

\* last_raw = ""
EmptyRaw == [kind |-> "empty", of |-> NoneContent]

\* A callback that is told the number of retries made so far
NotifyWithRetryCount(log, has_cb, attempt_no, exc) ==
    IF has_cb THEN Append(log, <<attempt_no - 1, exc>>) ELSE log

\* if on_validation_error is not None: on_validation_error(attempt, e)
NotifyValidationError(log, has_cb, attempt_no, exc) ==
    IF has_cb THEN Append(log, <<attempt_no, exc>>) ELSE log

InitRetry ==
    /\ max_retries \in 0..MaxRetries
    /\ has_callback \in BOOLEAN
    /\ attempt = 1
    /\ calls = 0
    /\ contents = <<>>
    /\ errors = <<>>
    /\ last_raw = EmptyRaw
    /\ current_message = UserMessage
    /\ callback_log = <<>>
    /\ rr_pc = "loop"
    /\ agent_raised = FALSE
    /\ rr_result = "none"
    /\ exc_attempts = 0
    /\ sent_messages = <<>>

\* One iteration of the loop in which agent.run returns a response.
RunAttempt ==
    /\ rr_pc = "loop"
    /\ attempt \in RetryRange(max_retries)
    /\ \E c \in Contents :
        LET parsed == ParseResponse(c) IN
        /\ calls' = calls + 1
        /\ sent_messages' = Append(sent_messages, current_message)
        /\ contents' = Append(contents, c)
        /\ last_raw' = LastRaw(c)
        /\ IF parsed.ok
           THEN /\ rr_pc' = "returned"
                /\ rr_result' = parsed.review
                /\ UNCHANGED <<attempt, errors, callback_log, current_message>>
           ELSE IF parsed.exc \in CaughtExceptions
           THEN /\ errors' = Append(errors, <<attempt, parsed.exc>>)
                /\ callback_log' =
                      NotifyValidationError(callback_log, has_callback, attempt,
                                            parsed.exc)
                /\ current_message' =
                      IF attempt <= max_retries
                      THEN RetryMessage(attempt, parsed.exc)
                      ELSE current_message
                /\ attempt' = attempt + 1
                /\ UNCHANGED <<rr_pc, rr_result>>
           ELSE /\ rr_pc' = "propagated"
                /\ UNCHANGED <<attempt, errors, callback_log, current_message,
                               rr_result>>
    /\ UNCHANGED <<max_retries, has_callback, exc_attempts, agent_raised>>
    /\ UNCHANGED notRetry

\* An iteration in which the exception of agent.run is caught like a
\* validation error
RunAttemptAgentErrorCaught ==
    /\ rr_pc = "loop"
    /\ attempt \in RetryRange(max_retries)
    /\ calls' = calls + 1
    /\ sent_messages' = Append(sent_messages, current_message)
    /\ agent_raised' = TRUE
    /\ errors' = Append(errors, <<attempt, "ValueError">>)
    /\ callback_log' =
          NotifyValidationError(callback_log, has_callback, attempt, "ValueError")
    /\ attempt' = attempt + 1
    /\ UNCHANGED <<max_retries, has_callback, contents, last_raw, current_message,
                   rr_pc, rr_result, exc_attempts>>
    /\ UNCHANGED notRetry

\* One iteration of the loop in which agent.run itself raises: nothing
\* catches it, and it leaves run_review.
RunAttemptAgentRaises ==
    /\ rr_pc = "loop"
    /\ attempt \in RetryRange(max_retries)
    /\ calls' = calls + 1
    /\ sent_messages' = Append(sent_messages, current_message)
    /\ rr_pc' = "propagated"
    /\ agent_raised' = TRUE
    /\ UNCHANGED <<max_retries, has_callback, attempt, contents, errors, last_raw,
                   current_message, callback_log, rr_result, exc_attempts>>
    /\ UNCHANGED notRetry

\* The loop ran out: raise ReviewParseError(attempts=max_retries + 1, ...)
RaiseReviewParseError ==
    /\ rr_pc = "loop"
    /\ attempt \notin RetryRange(max_retries)
    /\ rr_pc' = "raised"
    /\ exc_attempts' = max_retries + 1
    /\ UNCHANGED <<max_retries, has_callback, attempt, calls, contents, errors,
                   last_raw, current_message, callback_log, rr_result,
                   agent_raised, sent_messages>>
    /\ UNCHANGED notRetry

RetryNext == RunAttempt \/ RunAttemptAgentRaises \/ RaiseReviewParseError

IdleRetry ==
    /\ max_retries = 0
    /\ has_callback = FALSE
    /\ attempt = 1
    /\ calls = 0
    /\ contents = <<>>
    /\ errors = <<>>
    /\ last_raw = EmptyRaw
    /\ current_message = UserMessage
    /\ callback_log = <<>>
    /\ rr_pc = "idle"
    /\ agent_raised = FALSE
    /\ rr_result = "none"
    /\ exc_attempts = 0
    /\ sent_messages = <<>>

-----------------------------------------------------------------------------
(* schema.py: Finding and its fingerprint *)

Finding(file, category, title, line, severity, suggestion, rule) ==
    [file |-> file, category |-> category, title |-> title, line_start |-> line,
     severity |-> severity, suggestion |-> suggestion, governance_rule_id |-> rule]

\* FindingCategory.value, as text
CategoryValue(category) == <<category>>

\* key = f"{self.file.strip()}:{self.category.value}:{self.title.strip().lower()}"
FingerprintKey(f) ==
    Strip(f.file) \o <<":">> \o CategoryValue(f.category) \o <<":">>
        \o Lower(Strip(f.title))

\* A fingerprint whose key also holds the line number
FingerprintWithLine(f) == Sha256Hex12(FingerprintKey(f) \o <<":">> \o Str(f.line_start))

\* Finding.fingerprint
Fingerprint(f) == Sha256Hex12(FingerprintKey(f))

FpFiles == {<<"a">>, <<" ", "a">>, <<"b">>}
FpTitles == {<<"T">>, <<"t", " ">>, <<"u">>}
FpCategories == {"security", "logic"}
FpSeverities == {"HIGH", "LOW"}
FpSuggestions == {<<"s">>, <<"t">>}

\* The findings whose fingerprints are compared
FpPool ==
    {Finding(fl, c, t, l, s, g, "None") :
        fl \in FpFiles, c \in FpCategories, t \in FpTitles,
        l \in 1..MaxLine, s \in FpSeverities, g \in FpSuggestions}

InitFp ==
    /\ fp_findings \in [1..2 -> FpPool]
    /\ fp_cache = [i \in 1..2 |-> <<"unset">>]

\* First access of the cached property of one instance: compute and cache.
\* Later accesses read the cache and change nothing.
AccessFingerprint ==
    /\ \E i \in 1..2 :
           /\ fp_cache[i] = <<"unset">>
           /\ fp_cache' = [fp_cache EXCEPT ![i] = Fingerprint(fp_findings[i])]
           /\ UNCHANGED fp_findings
    /\ UNCHANGED notFp

FpNext == AccessFingerprint

IdleFp ==
    /\ fp_findings = <<>>
    /\ fp_cache = <<>>

-----------------------------------------------------------------------------
(* github_review.py: resolve_findings_against_prior *)

\* A prior entry as get_prior_findings returns it (the keys the resolver reads)
PriorEntry(nid, fp) == [node_id |-> nid, fingerprint |-> fp]

RsX1 == Finding(<<"a">>, "security", <<"T">>, 1, "HIGH", <<"s">>, "None")
RsX2 == Finding(<<"a">>, "security", <<"t">>, 2, "LOW", <<"s">>, "None")
RsY == Finding(<<"b">>, "logic", <<"u">>, 1, "HIGH", <<"s">>, "None")
RsZ == Finding(<<"b">>, "security", <<"u">>, 1, "HIGH", <<"s">>, "None")

\* current findings: RsX1 and RsX2 share a fingerprint
ResolvePool == {RsX1, RsX2, RsY}

\* prior entries: two nodes with the fingerprint of RsX1, one of RsY, one of RsZ
PriorPool ==
    {PriorEntry("n1", Fingerprint(RsX1)), PriorEntry("n2", Fingerprint(RsX2)),
     PriorEntry("n3", Fingerprint(RsY)), PriorEntry("n4", Fingerprint(RsZ))}

\* prior_by_fp = {p["fingerprint"]: p for p in prior}: the last entry wins
PriorByFp(prior) ==
    [fp \in {prior[i].fingerprint : i \in 1..Len(prior)} |->
        prior[CHOOSE i \in 1..Len(prior) :
                /\ prior[i].fingerprint = fp
                /\ \A j \in (i + 1)..Len(prior) : prior[j].fingerprint # fp]]

EmptyResolution ==
    [new |-> <<>>, persisting |-> <<>>, resolved |-> <<>>, matched |-> {}]

RECURSIVE ResolveCurrent(_, _, _)
\* for finding in current: ...
ResolveCurrent(current, prior_by_fp, acc) ==
    IF current = <<>> THEN acc
    ELSE LET finding == Head(current)
             fp == Fingerprint(finding)
         IN ResolveCurrent(Tail(current), prior_by_fp,
                IF fp \in DOMAIN prior_by_fp
                THEN [acc EXCEPT
                        !.persisting = Append(@, [finding |-> finding,
                                                  prior_node_id |-> prior_by_fp[fp].node_id]),
                        !.matched = @ \cup {fp}]
                ELSE [acc EXCEPT !.new = Append(@, finding)])

\* A second loop that reports every prior entry as resolved
ResolvePriorKeepingMatched(prior, acc) == [acc EXCEPT !.resolved = prior]

RECURSIVE ResolvePrior(_, _)
\* for prior_finding in prior: ...
ResolvePrior(prior, acc) ==
    IF prior = <<>> THEN acc
    ELSE ResolvePrior(Tail(prior),
            IF Head(prior).fingerprint \notin acc.matched
            THEN [acc EXCEPT !.resolved = Append(@, Head(prior))]
            ELSE acc)

\* resolve_findings_against_prior(current, prior)
ResolveFindingsAgainstPrior(current, prior) ==
    LET r == ResolvePrior(prior,
                 ResolveCurrent(current, PriorByFp(prior), EmptyResolution))
    IN [done |-> TRUE, new |-> r.new, persisting |-> r.persisting,
        resolved |-> r.resolved]

NoResolution ==
    [done |-> FALSE, new |-> <<>>, persisting |-> <<>>, resolved |-> <<>>]

InitResolve ==
    /\ rs_current \in SeqsOf(ResolvePool, 0, MaxCurrent)
    /\ rs_prior \in SeqsOf(PriorPool, 0, MaxPrior)
    /\ rs_result = NoResolution

Resolve ==
    /\ rs_result = NoResolution
    /\ rs_result' = ResolveFindingsAgainstPrior(rs_current, rs_prior)
    /\ UNCHANGED <<rs_current, rs_prior>>
    /\ UNCHANGED notResolve

ResolveNext == Resolve

IdleResolve ==
    /\ rs_current = <<>>
    /\ rs_prior = <<>>
    /\ rs_result = NoResolution

-----------------------------------------------------------------------------
(* github_review.py: parse_diff_lines *)

\* File names of the diff; NoFile is current_file = None
DiffFiles == {<<"a">>, <<"b">>}
NoFile == <<>>

\* The characters a line is made of, and tokens that stand for the keywords
\* the parser tests for
LineChars == {"+", "-", " ", "\\", "x"}
KeywordLines == {<<"index ">>, <<"new file">>, <<"diff --git">>}

DiffLine(t, file, start, text) ==
    [t |-> t, file |-> file, start |-> start, text |-> text]

\* The lines of a diff: 'diff --git a/X b/Y' (file = Y), '@@ -l,c +start,c @@',
\* and any other line, given by its text
DiffLines ==
    {DiffLine("file", f, 0, <<>>) : f \in DiffFiles}
    \cup {DiffLine("hunk", NoFile, n, <<>>) : n \in 1..MaxHunkStart}
    \cup {DiffLine("text", NoFile, 0, s) :
            s \in SeqsOf(LineChars, 0, 3) \cup KeywordLines}

\* result[current_file].add(right_line); right_line += 1
AddRightLine(st) ==
    [st EXCEPT !.result[st.current_file] = @ \cup {st.right_line},
               !.right_line = @ + 1]

\* A loop body that takes a deleted line for a line of the new file
ParseTextLineCountingDeletions(st, s) ==
    IF StartsWith(s, <<"-", "-", "-">>) \/ StartsWith(s, <<"+", "+", "+">>) THEN st
    ELSE IF StartsWith(s, <<"diff --git">>) THEN st
    ELSE IF StartsWith(s, <<"new file">>) \/ StartsWith(s, <<"index ">>) THEN st
    ELSE IF StartsWith(s, <<"-">>) \/ StartsWith(s, <<"+">>) \/ StartsWith(s, <<" ">>)
    THEN AddRightLine(st)
    ELSE st

\* What the body of the loop does with a line that is neither a file header
\* nor a hunk header, when current_file is set
ParseTextLine(st, s) ==
    IF StartsWith(s, <<"-", "-", "-">>) \/ StartsWith(s, <<"+", "+", "+">>) THEN st
    ELSE IF StartsWith(s, <<"diff --git">>) THEN st
    ELSE IF StartsWith(s, <<"new file">>) \/ StartsWith(s, <<"index ">>) THEN st
    ELSE IF StartsWith(s, <<"-">>) THEN st
    ELSE IF StartsWith(s, <<"+">>) THEN AddRightLine(st)
    ELSE IF StartsWith(s, <<" ">>) THEN AddRightLine(st)
    ELSE IF StartsWith(s, <<"\\">>) THEN st
    ELSE st

\* What a 'diff --git a/X b/Y' line does
ParseFileHeader(st, file) ==
    [st EXCEPT !.current_file = file,
               !.result = IF file \in DOMAIN @ THEN @ ELSE @ @@ (file :> {})]

\* What a hunk header does
ParseHunkHeader(st, start) == [st EXCEPT !.right_line = start]

\* One iteration of `for line in diff_text.splitlines()`
ParseDiffLine(st, line) ==
    IF line.t = "file" THEN ParseFileHeader(st, line.file)
    ELSE IF line.t = "hunk" THEN ParseHunkHeader(st, line.start)
    ELSE IF st.current_file = NoFile THEN st
    ELSE ParseTextLine(st, line.text)

\* The reference reading of the same line.  A hunk of a file starts at a hunk
\* header that follows that file's header and ends at the next file header;
\* its '+' and ' ' lines are numbered from the header's right-side start.
\* A diff is well formed when nothing precedes the first file header, only
\* metadata lines stand between a file header and its first hunk, and a hunk
\* holds only '+', '-', ' ' and '\' lines.
IsMetadataText(s) ==
    \/ StartsWith(s, <<"-", "-", "-">>)
    \/ StartsWith(s, <<"+", "+", "+">>)
    \/ StartsWith(s, <<"index ">>)
    \/ StartsWith(s, <<"new file">>)
    \/ StartsWith(s, <<"x">>)

IsRightSideText(s) == StartsWith(s, <<"+">>) \/ StartsWith(s, <<" ">>)

IsHunkText(s) ==
    IsRightSideText(s) \/ StartsWith(s, <<"-">>) \/ StartsWith(s, <<"\\">>)

TruthStep(tr, line) ==
    IF line.t = "file" THEN
        [tr EXCEPT !.file = line.file, !.in_hunk = FALSE,
                   !.truth = IF line.file \in DOMAIN @ THEN @
                             ELSE @ @@ (line.file :> {})]
    ELSE IF line.t = "hunk" THEN
        IF tr.file = NoFile THEN [tr EXCEPT !.wellformed = FALSE]
        ELSE [tr EXCEPT !.in_hunk = TRUE, !.line = line.start]
    ELSE IF tr.in_hunk THEN
        IF IsRightSideText(line.text)
        THEN [tr EXCEPT !.truth[tr.file] = @ \cup {tr.line}, !.line = @ + 1]
        ELSE IF IsHunkText(line.text) THEN tr
        ELSE [tr EXCEPT !.wellformed = FALSE]
    ELSE IF tr.file # NoFile /\ IsMetadataText(line.text) THEN tr
    ELSE [tr EXCEPT !.wellformed = FALSE]

ParserState ==
    [result |-> df_result, current_file |-> df_current_file,
     right_line |-> df_right_line]

TruthState ==
    [truth |-> df_truth, file |-> df_truth_file, in_hunk |-> df_in_hunk,
     line |-> df_truth_line, wellformed |-> df_wellformed]

\* result = {}; current_file = None; right_line = 0.  (An all-blank diff
\* returns {} early, as the loop would.)
InitDiff ==
    /\ df_result = EmptyMap
    /\ df_current_file = NoFile
    /\ df_right_line = 0
    /\ df_nlines = 0
    /\ df_truth = EmptyMap
    /\ df_in_hunk = FALSE
    /\ df_truth_file = NoFile
    /\ df_truth_line = 0
    /\ df_wellformed = TRUE

\* The parser reads the next line of the diff
ParseLine ==
    /\ df_nlines < MaxDiffLines
    /\ \E line \in DiffLines :
        LET st == ParseDiffLine(ParserState, line)
            tr == TruthStep(TruthState, line)
        IN /\ df_result' = st.result
           /\ df_current_file' = st.current_file
           /\ df_right_line' = st.right_line
           /\ df_truth' = tr.truth
           /\ df_truth_file' = tr.file
           /\ df_in_hunk' = tr.in_hunk
           /\ df_truth_line' = tr.line
           /\ df_wellformed' = tr.wellformed
    /\ df_nlines' = df_nlines + 1
    /\ UNCHANGED notDiff

DiffNext == ParseLine

IdleDiff == InitDiff

-----------------------------------------------------------------------------
(* github_review.py: classify_findings *)

ClassifyFiles == {<<"a">>, <<"b">>}

ClassifyPool ==
    {Finding(fl, "logic", <<"t">>, l, "LOW", <<"s">>, "None") :
        fl \in ClassifyFiles, l \in 1..(MaxLine + 1)}

\* The addressability maps: each file is absent or has a set of lines
DiffLineMaps ==
    UNION {[D -> SUBSET (1..MaxLine)] : D \in SUBSET ClassifyFiles}

\* A test that looks at the file only
IsInlineByFileOnly(finding, diff_lines) ==
    /\ finding.file \in DOMAIN diff_lines
    /\ diff_lines[finding.file] # {}

\* file_lines = diff_lines.get(finding.file);
\* `file_lines and finding.line_start in file_lines`
IsInline(finding, diff_lines) ==
    /\ finding.file \in DOMAIN diff_lines
    /\ diff_lines[finding.file] # {}
    /\ finding.line_start \in diff_lines[finding.file]

RECURSIVE ClassifyLoop(_, _, _)
ClassifyLoop(findings, diff_lines, acc) ==
    IF findings = <<>> THEN acc
    ELSE ClassifyLoop(Tail(findings), diff_lines,
            IF IsInline(Head(findings), diff_lines)
            THEN [acc EXCEPT !.inline = Append(@, Head(findings))]
            ELSE [acc EXCEPT !.off_diff = Append(@, Head(findings))])

\* classify_findings(findings, diff_lines)
ClassifyFindings(findings, diff_lines) ==
    ClassifyLoop(findings, diff_lines,
                 [done |-> TRUE, inline |-> <<>>, off_diff |-> <<>>])

NoClassification == [done |-> FALSE, inline |-> <<>>, off_diff |-> <<>>]

InitClassify ==
    /\ cl_findings \in SeqsOf(ClassifyPool, 0, MaxFindings)
    /\ cl_diff_lines \in DiffLineMaps
    /\ cl_result = NoClassification

Classify ==
    /\ ~cl_result.done
    /\ cl_result' = ClassifyFindings(cl_findings, cl_diff_lines)
    /\ UNCHANGED <<cl_findings, cl_diff_lines>>
    /\ UNCHANGED notClassify

ClassifyNext == Classify

IdleClassify ==
    /\ cl_findings = <<>>
    /\ cl_diff_lines = EmptyMap
    /\ cl_result = NoClassification

-----------------------------------------------------------------------------
(* graph.py: node_id and review_to_graph *)

\* raw = ":".join([node_type.value, *(str(p) for p in parts)]);
\* f"{node_type.value}:{digest}"
NodeId(type, parts) ==
    <<type, ":">> \o Sha256Hex12(Join(<<":">>, <<<<type>>>> \o parts))

Edge(type, target_id, target_type) ==
    [type |-> type, target_id |-> target_id, target_type |-> target_type]

\* A node; properties keeps the two keys the store reads back, status and
\* fingerprint ("absent" and <<>> on a node that has neither)
Node(id, type, label, status, fingerprint, edgs, created_at, review_id) ==
    [id |-> id, type |-> type, label |-> label,
     properties |-> [status |-> status, fingerprint |-> fingerprint],
     edges |-> edgs, created_at |-> created_at, source_review_id |-> review_id]

\* _add: append the node unless its id was seen
AddNode(nodes, node) ==
    IF \E i \in 1..Len(nodes) : nodes[i].id = node.id THEN nodes
    ELSE Append(nodes, node)

ReviewNodeId(review) == NodeId("REVIEW", <<review.timestamp, review.title>>)

\* A test that takes every identifier other than None for a rule
HasRuleUnlessNone(rule_id) == rule_id # "None"

\* `if finding.governance_rule_id:` (None and "" are falsy)
HasRule(rule_id) == rule_id \notin {"None", ""}

\* finding_nid = node_id(NodeType.FINDING, finding.file, finding.line_start,
\* finding.title)
FindingNodeId(finding) ==
    NodeId("FINDING", <<finding.file, Str(finding.line_start), finding.title>>)

\* The nodes one finding adds: FILE, SUGGESTION, RULE (if any), FINDING
AddFindingNodes(nodes, review, finding) ==
    LET rid == ReviewNodeId(review)
        file_nid == NodeId("FILE", <<finding.file>>)
        suggestion_nid ==
            NodeId("SUGGESTION",
                   <<finding.file, Str(finding.line_start), finding.suggestion>>)
        has_rule == HasRule(finding.governance_rule_id)
        rule_nid == NodeId("RULE", <<<<finding.governance_rule_id>>>>)
        finding_edges ==
            <<Edge("FOUND_IN", file_nid, "FILE"),
              Edge("FIXED_BY", suggestion_nid, "SUGGESTION")>>
            \o (IF has_rule THEN <<Edge("VIOLATES", rule_nid, "RULE")>> ELSE <<>>)
        finding_nid == FindingNodeId(finding)
        n1 == AddNode(nodes,
                  Node(file_nid, "FILE", finding.file, "absent", <<>>, <<>>,
                       review.timestamp, rid))
        n2 == AddNode(n1,
                  Node(suggestion_nid, "SUGGESTION", finding.suggestion, "absent",
                       <<>>, <<>>, review.timestamp, rid))
        n3 == IF has_rule
              THEN AddNode(n2,
                      Node(rule_nid, "RULE", <<finding.governance_rule_id>>, "absent",
                           <<>>, <<>>, review.timestamp, rid))
              ELSE n2
    IN AddNode(n3,
           Node(finding_nid, "FINDING", finding.title, "FindingStatus.OPEN",
                Fingerprint(finding), finding_edges, review.timestamp, rid))

RECURSIVE AddFindings(_, _, _)
AddFindings(nodes, review, findings) ==
    IF findings = <<>> THEN nodes
    ELSE AddFindings(AddFindingNodes(nodes, review, Head(findings)), review,
                     Tail(findings))

\* review_to_graph(review)
ReviewToGraph(review) ==
    LET rid == ReviewNodeId(review)
        review_node ==
            Node(rid, "REVIEW", <<"Review: ">> \o review.title, "absent", <<>>,
                 <<Edge("REVIEWED_BY", NodeId("AUTHOR", <<<<"agent">>, review.model>>),
                        "AUTHOR")>>,
                 review.timestamp, <<>>)
        author_node ==
            Node(NodeId("AUTHOR", <<review.author>>), "AUTHOR", review.author,
                 "absent", <<>>, <<>>, review.timestamp, rid)
    IN [review_id |-> rid,
        nodes |-> AddFindings(AddNode(AddNode(<<>>, review_node), author_node),
                              review, review.findings)]

-----------------------------------------------------------------------------
(* persistence.py: GrippyStore *)

Review(ts, author, findings) ==
    [timestamp |-> ts, title |-> <<"P">>, author |-> author, model |-> <<"m">>,
     findings |-> findings]

SfA == Finding(<<"a">>, "security", <<"T">>, 1, "HIGH", <<"s">>, "R1")
SfB == Finding(<<"b">>, "logic", <<"u">>, 2, "LOW", <<"s">>, "None")

\* The reviews whose graphs are stored: two rounds of one author's PR that
\* share a finding, and a review by another author
StoreReviews ==
    {Review(<<"1">>, <<"x">>, <<SfA>>), Review(<<"2">>, <<"x">>, <<SfA, SfB>>),
     Review(<<"3">>, <<"y">>, <<SfB>>)}

\* f"pr-{pr_number}"
PrSession(n) == <<"p", "r", "-">> \o Str(n)

Sessions == {PrSession(1), PrSession(2)}

FindingNodeIds ==
    {NodeId("FINDING", <<f.file, Str(f.line_start), f.title>>) : f \in {SfA, SfB}}

\* a node id that no review produces
UnknownNodeId == NodeId("FINDING", <<<<"z">>>>)

\* The status argument of update_finding_status: str | FindingStatus
StatusArgs == {"resolved", "open", "FindingStatus.RESOLVED"}

\* json.dumps of a value that may be a FindingStatus member: a StrEnum is
\* written as its value
JsonValue(v) ==
    CASE v = "FindingStatus.OPEN" -> "open"
      [] v = "FindingStatus.RESOLVED" -> "resolved"
      [] OTHER -> v

\* json.dumps(properties): the text of the properties column
JsonDumps(props) == [json |-> [props EXCEPT !.status = JsonValue(@)]]

\* json.loads(row["properties"])
JsonLoads(text) == text.json

HasNodeRow(table, nid) == \E i \in 1..Len(table) : table[i].node_id = nid

\* INSERT OR IGNORE INTO node_meta: node_id is the primary key
InsertOrIgnoreNode(table, row) ==
    IF HasNodeRow(table, row.node_id) THEN table ELSE Append(table, row)

\* A plain INSERT INTO edges on a table without the UNIQUE constraint
InsertEdge(table, row) == Append(table, row)

\* INSERT OR IGNORE INTO edges: UNIQUE(source_id, edge_type, target_id)
InsertOrIgnoreEdge(table, row) ==
    IF \E i \in 1..Len(table) :
            /\ table[i].source_id = row.source_id
            /\ table[i].edge_type = row.edge_type
            /\ table[i].target_id = row.target_id
    THEN table ELSE Append(table, row)

NodeRow(node, session_id) ==
    [node_id |-> node.id, node_type |-> node.type, label |-> node.label,
     properties |-> JsonDumps(node.properties),
     review_id |-> node.source_review_id, session_id |-> session_id,
     created_at |-> node.created_at]

EdgeRow(node, edge) ==
    [source_id |-> node.id, edge_type |-> edge.type, target_id |-> edge.target_id]

RECURSIVE InsertEdges(_, _, _)
InsertEdges(table, node, edgs) ==
    IF edgs = <<>> THEN table
    ELSE InsertEdges(InsertOrIgnoreEdge(table, EdgeRow(node, Head(edgs))), node,
                     Tail(edgs))

RECURSIVE StoreEdgesLoop(_, _, _)
\* for node in graph.nodes: insert its row, then its edges
StoreEdgesLoop(db, nodes, session_id) ==
    IF nodes = <<>> THEN db
    ELSE StoreEdgesLoop(
            [node_meta |-> InsertOrIgnoreNode(db.node_meta,
                                              NodeRow(Head(nodes), session_id)),
             edges |-> InsertEdges(db.edges, Head(nodes), Head(nodes).edges)],
            Tail(nodes), session_id)

\* GrippyStore._store_edges(graph, session_id=...)
StoreEdges(db, graph, session_id) == StoreEdgesLoop(db, graph.nodes, session_id)

\* GrippyStore._store_nodes(graph), past the embedding call: create the table
\* with all records, or add the records whose ids it does not hold
StoreNodes(table, graph) ==
    LET ids == [i \in 1..Len(graph.nodes) |-> graph.nodes[i].id] IN
    IF ids = <<>> THEN table
    ELSE IF ~table.exists THEN [exists |-> TRUE, ids |-> ids]
    ELSE [table EXCEPT
            !.ids = @ \o SelectSeq(ids, LAMBDA x : x \notin SeqRange(table.ids))]

\* A query without `AND session_id = ?`
GetPriorFindingsOfAnySession(table, session_id) ==
    LET open(row) ==
            /\ row.node_type = "FINDING"
            /\ JsonLoads(row.properties).status = "open"
        rows == SelectSeq(table, open)
    IN [i \in 1..Len(rows) |->
            [node_id |-> rows[i].node_id,
             fingerprint |-> JsonLoads(rows[i].properties).fingerprint,
             title |-> rows[i].label]]

\* GrippyStore.get_prior_findings(session_id=...)
GetPriorFindings(table, session_id) ==
    LET open(row) ==
            /\ row.node_type = "FINDING"
            /\ row.session_id = session_id
            /\ JsonLoads(row.properties).status = "open"
        rows == SelectSeq(table, open)
    IN [i \in 1..Len(rows) |->
            [node_id |-> rows[i].node_id,
             fingerprint |-> JsonLoads(rows[i].properties).fingerprint,
             title |-> rows[i].label]]

\* GrippyStore.update_finding_status(node_id, status)
UpdateStatus(table, nid, status) ==
    [i \in 1..Len(table) |->
        IF table[i].node_id = nid
        THEN [table[i] EXCEPT
                !.properties =
                    JsonDumps([JsonLoads(@) EXCEPT !.status = status])]
        ELSE table[i]]

\* GrippyStore.get_author_tendencies(author): the review ids of the AUTHOR
\* rows with that label, then the FINDING rows with one of those review ids
GetAuthorTendencies(table, author) ==
    LET author_rows ==
            SelectSeq(table, LAMBDA row :
                row.node_type = "AUTHOR" /\ row.label = author)
        review_ids ==
            {author_rows[i].review_id : i \in 1..Len(author_rows)} \ {<<>>}
        rows == SelectSeq(table, LAMBDA row :
                    row.node_type = "FINDING" /\ row.review_id \in review_ids)
    IN IF author_rows = <<>> \/ review_ids = {} THEN <<>>
       ELSE [i \in 1..Len(rows) |->
                [status |-> JsonLoads(rows[i].properties).status,
                 fingerprint |-> JsonLoads(rows[i].properties).fingerprint,
                 title |-> rows[i].label]]

NoOp == [op |-> "none", again |-> FALSE]

StoreReviewCall(called, review, session_id, returned) ==
    [called |-> called, review |-> review, session_id |-> session_id,
     returned |-> returned]

NoStoreCall == StoreReviewCall(FALSE, Review(<<>>, <<>>, <<>>), <<>>, FALSE)

InitStore ==
    /\ node_meta = <<>>
    /\ edges = <<>>
    /\ nodes_table = [exists |-> FALSE, ids |-> <<>>]
    /\ st_ops = 0
    /\ st_first_session = EmptyMap
    /\ st_last_status = EmptyMap
    /\ st_stored = {}
    /\ st_last_op = NoOp
    /\ st_prev = [node_meta |-> <<>>, edges |-> <<>>]
    /\ st_last_store = NoStoreCall

\* store.store_review(graph, session_id=...): _store_edges commits, then
\* _store_nodes embeds (which may raise) and writes the vector table
StoreReview ==
    /\ st_ops < MaxStoreOps
    /\ \E review \in StoreReviews, session_id \in Sessions, embed_ok \in BOOLEAN :
        LET graph == ReviewToGraph(review)
            db == StoreEdges([node_meta |-> node_meta, edges |-> edges], graph,
                             session_id)
            fresh == {graph.nodes[i].id : i \in 1..Len(graph.nodes)}
                        \ DOMAIN st_first_session
        IN /\ node_meta' = db.node_meta
           /\ edges' = db.edges
           /\ nodes_table' =
                IF embed_ok THEN StoreNodes(nodes_table, graph) ELSE nodes_table
           /\ st_first_session' =
                st_first_session @@ [n \in fresh |-> session_id]
           /\ st_last_status' = st_last_status @@ [n \in fresh |-> "open"]
           /\ st_last_op' = [op |-> "store_review", again |-> review \in st_stored]
           /\ st_stored' = st_stored \cup {review}
           /\ st_last_store' = StoreReviewCall(TRUE, review, session_id, embed_ok)
    /\ st_prev' = [node_meta |-> node_meta, edges |-> edges]
    /\ st_ops' = st_ops + 1
    /\ UNCHANGED notStore

\* store.update_finding_status(node_id, status)
UpdateFindingStatus ==
    /\ st_ops < MaxStoreOps
    /\ \E nid \in FindingNodeIds \cup {UnknownNodeId}, status \in StatusArgs :
        /\ node_meta' = UpdateStatus(node_meta, nid, status)
        /\ st_last_status' =
             IF nid \in DOMAIN st_last_status
             THEN [st_last_status EXCEPT
                     ![nid] = IF status = "open" THEN "open" ELSE "resolved"]
             ELSE st_last_status
    /\ st_last_op' = [op |-> "update_finding_status", again |-> FALSE]
    /\ st_last_store' = NoStoreCall
    /\ st_prev' = [node_meta |-> node_meta, edges |-> edges]
    /\ st_ops' = st_ops + 1
    /\ UNCHANGED <<edges, nodes_table, st_first_session, st_stored>>
    /\ UNCHANGED notStore

StoreNext == StoreReview \/ UpdateFindingStatus

IdleStore == InitStore

-----------------------------------------------------------------------------
(* agent.py: _resolve_transport *)

\* os.environ.get(name) of a variable that is not set
NoneValue == <<"None">>

\* Values of GRIPPY_TRANSPORT
TransportTexts ==
    {<<"openai">>, <<" ", "OPENAI">>, <<"local">>, <<"local", " ">>, <<"grpc">>, <<" ">>}

\* _VALID_TRANSPORTS = {"openai", "local"}
ValidTransports == {<<"openai">>, <<"local">>}

\* _resolve_transport(transport, model_id), with GRIPPY_TRANSPORT = env_transport
\* and OPENAI_API_KEY set iff has_key
ResolveTransport(transport, env_transport, has_key) ==
    LET tier1 == IF transport # NoneValue THEN Lower(Strip(transport)) ELSE NoneValue
        tier2 == IF tier1 = NoneValue /\ env_transport \notin {NoneValue, <<>>}
                 THEN Lower(Strip(env_transport)) ELSE tier1
        resolved == IF tier2 # NoneValue THEN tier2
                    ELSE IF has_key THEN <<"openai">> ELSE <<"local">>
    IN [ok |-> resolved \in ValidTransports, transport |-> resolved]

-----------------------------------------------------------------------------
(* review.py: main *)

\* The keyword arguments GrippyStore.__init__ takes (all keyword-only and
\* required), and those main passes
GrippyStoreParams == {"graph_db_path", "lance_dir", "embedder"}
MainStoreArgs == {"graph_db_path", "lance_dir", "embed_fn"}

\* What GrippyStore(...) does in main.  The class of persistence.py raises
\* TypeError on an unexpected keyword; the MagicMock that the tests of main
\* patch in for it accepts any call.
StoreConstructorAccepts(class, args) ==
    class = "MagicMock" \/ args = GrippyStoreParams

\* store_review's default: session_id: str = ""
DefaultSession == <<>>

StoreCall(method, session_id) == [method |-> method, session_id |-> session_id]

\* The calls main makes on the store it constructed: store.store_review(graph)
MainStoreCalls == <<StoreCall("store_review", DefaultSession)>>

Comment(header, posted) == [header |-> header, posted |-> posted]

NoReview == [present |-> FALSE, merge_blocking |-> FALSE, findings |-> <<>>]

MainReviews ==
    {[present |-> TRUE, merge_blocking |-> b, findings |-> fs] :
        b \in BOOLEAN, fs \in {<<>>, <<RsX1>>}}

\* The open findings the graph store holds for the PR's session when the run
\* starts
MainPriors ==
    {<<>>, <<PriorEntry("n1", Fingerprint(RsX1))>>,
     <<PriorEntry("n1", Fingerprint(RsX1)), PriorEntry("n3", Fingerprint(RsY))>>}

\* transport = os.environ.get("GRIPPY_TRANSPORT") or None
TransportParam(env_transport) ==
    IF env_transport \in {NoneValue, <<>>} THEN NoneValue ELSE env_transport

\* A header for every failure alike
ErrorHeaderUniform(exc) == "ERROR"

\* The header of the failure comment main builds in each except branch
ErrorHeader(exc) ==
    CASE exc = "DiffFetchError" -> "DIFF FETCH ERROR"
      [] exc = "ReviewParseError" -> "PARSE ERROR"
      [] exc = "TimeoutError" -> "TIMEOUT"
      [] OTHER -> "ERROR"

\* A persist step whose failure ends the run
AfterPersistFailStop(raised) == IF raised THEN "exited" ELSE "post"

\* Where main goes after the try block of step 5: `except Exception` prints a
\* warning and falls through to step 6
AfterPersist(raised) == "post"

InitMain ==
    /\ m_pc = "fetch_diff"
    /\ m_store_class \in {"GrippyStore", "MagicMock"}
    /\ m_pr_number \in 1..2
    /\ m_transport \in {NoneValue} \cup TransportTexts
    /\ m_has_key \in BOOLEAN
    /\ m_prior \in MainPriors
    /\ m_review = NoReview
    /\ m_store_calls = <<>>
    /\ m_comments = <<>>
    /\ m_failure = "none"
    /\ m_persist = "none"
    /\ m_outputs = FALSE
    /\ m_exit = "running"

\* 2. fetch_pr_diff succeeds
FetchDiff ==
    /\ m_pc = "fetch_diff"
    /\ m_pc' = "create_agent"
    /\ UNCHANGED <<m_store_class, m_pr_number, m_transport, m_has_key, m_prior,
                   m_review, m_store_calls, m_comments, m_failure, m_persist,
                   m_outputs, m_exit>>
    /\ UNCHANGED notMain

\* 2. fetch_pr_diff raises: DIFF FETCH ERROR comment (its failure is
\* swallowed), sys.exit(1)
FetchDiffFails ==
    /\ m_pc = "fetch_diff"
    /\ \E posted \in BOOLEAN :
        m_comments' =
            Append(m_comments, Comment(ErrorHeader("DiffFetchError"), posted))
    /\ m_failure' = "DiffFetchError"
    /\ m_pc' = "exited"
    /\ m_exit' = 1
    /\ UNCHANGED <<m_store_class, m_pr_number, m_transport, m_has_key, m_prior,
                   m_review, m_store_calls, m_persist, m_outputs>>
    /\ UNCHANGED notMain

\* 3. create_reviewer returns the agent
CreateAgent ==
    /\ m_pc = "create_agent"
    /\ ResolveTransport(TransportParam(m_transport), m_transport, m_has_key).ok
    /\ m_pc' = "run_review"
    /\ UNCHANGED <<m_store_class, m_pr_number, m_transport, m_has_key, m_prior,
                   m_review, m_store_calls, m_comments, m_failure, m_persist,
                   m_outputs, m_exit>>
    /\ UNCHANGED notMain

\* 3. create_reviewer raises the ValueError of _resolve_transport: nothing in
\* main catches it, the interpreter exits with status 1
CreateAgentRaises ==
    /\ m_pc = "create_agent"
    /\ ~ResolveTransport(TransportParam(m_transport), m_transport, m_has_key).ok
    /\ m_failure' = "ValueError"
    /\ m_pc' = "exited"
    /\ m_exit' = 1
    /\ UNCHANGED <<m_store_class, m_pr_number, m_transport, m_has_key, m_prior,
                   m_review, m_store_calls, m_comments, m_persist, m_outputs>>
    /\ UNCHANGED notMain

\* 4. _with_timeout(run_review) returns a validated review
RunReviewReturns ==
    /\ m_pc = "run_review"
    /\ m_review' \in MainReviews
    /\ m_pc' = "persist"
    /\ UNCHANGED <<m_store_class, m_pr_number, m_transport, m_has_key, m_prior,
                   m_store_calls, m_comments, m_failure, m_persist, m_outputs,
                   m_exit>>
    /\ UNCHANGED notMain

\* 4. it raises: the matching error comment (its failure is swallowed),
\* sys.exit(1)
RunReviewRaises ==
    /\ m_pc = "run_review"
    /\ \E exc \in {"ReviewParseError", "TimeoutError", "Exception"},
          posted \in BOOLEAN :
        /\ m_comments' = Append(m_comments, Comment(ErrorHeader(exc), posted))
        /\ m_failure' = exc
    /\ m_pc' = "exited"
    /\ m_exit' = 1
    /\ UNCHANGED <<m_store_class, m_pr_number, m_transport, m_has_key, m_prior,
                   m_review, m_store_calls, m_persist, m_outputs>>
    /\ UNCHANGED notMain

\* 5. the try block: make_embed_fn, review_to_graph, GrippyStore(...),
\* store.store_review(graph); any exception is printed as a warning
PersistGraph ==
    /\ m_pc = "persist"
    /\ \E store_raises \in BOOLEAN :
        LET constructed == StoreConstructorAccepts(m_store_class, MainStoreArgs)
            raised == ~constructed \/ store_raises
        IN /\ m_store_calls' =
                 IF constructed THEN m_store_calls \o MainStoreCalls
                 ELSE m_store_calls
           /\ m_persist' = IF raised THEN "failed" ELSE "stored"
           /\ m_pc' = AfterPersist(raised)
    /\ UNCHANGED <<m_store_class, m_pr_number, m_transport, m_has_key, m_prior,
                   m_review, m_comments, m_failure, m_outputs, m_exit>>
    /\ UNCHANGED notMain

\* 6. format_review_comment and post_comment succeed
PostReviewComment ==
    /\ m_pc = "post"
    /\ m_comments' = Append(m_comments, Comment("REVIEW", TRUE))
    /\ m_pc' = "outputs"
    /\ UNCHANGED <<m_store_class, m_pr_number, m_transport, m_has_key, m_prior,
                   m_review, m_store_calls, m_failure, m_persist, m_outputs,
                   m_exit>>
    /\ UNCHANGED notMain

\* 6. post_comment raises: the call is outside any try, the exception leaves
\* main and the interpreter exits with status 1
PostReviewCommentRaises ==
    /\ m_pc = "post"
    /\ m_comments' = Append(m_comments, Comment("REVIEW", FALSE))
    /\ m_failure' = "PostError"
    /\ m_pc' = "exited"
    /\ m_exit' = 1
    /\ UNCHANGED <<m_store_class, m_pr_number, m_transport, m_has_key, m_prior,
                   m_review, m_store_calls, m_persist, m_outputs>>
    /\ UNCHANGED notMain

\* 7. write the outputs; exit 1 if the verdict blocks the merge, else return
WriteOutputsAndExit ==
    /\ m_pc = "outputs"
    /\ m_outputs' = TRUE
    /\ m_pc' = "exited"
    /\ m_exit' = IF m_review.merge_blocking THEN 1 ELSE 0
    /\ UNCHANGED <<m_store_class, m_pr_number, m_transport, m_has_key, m_prior,
                   m_review, m_store_calls, m_comments, m_failure, m_persist>>
    /\ UNCHANGED notMain

MainNext ==
    \/ FetchDiff \/ FetchDiffFails
    \/ CreateAgent \/ CreateAgentRaises
    \/ RunReviewReturns \/ RunReviewRaises
    \/ PersistGraph
    \/ PostReviewComment \/ PostReviewCommentRaises
    \/ WriteOutputsAndExit

IdleMain ==
    /\ m_pc = "idle"
    /\ m_store_class = "GrippyStore"
    /\ m_pr_number = 1
    /\ m_transport = NoneValue
    /\ m_has_key = FALSE
    /\ m_prior = <<>>
    /\ m_review = NoReview
    /\ m_store_calls = <<>>
    /\ m_comments = <<>>
    /\ m_failure = "none"
    /\ m_persist = "none"
    /\ m_outputs = FALSE
    /\ m_exit = "running"

-----------------------------------------------------------------------------
(* github_review.py: format_summary_comment and post_review *)

\* _REVIEW_BATCH_SIZE
ReviewBatchSize == 25

\* The full name of the base repository, of a fork of it, and
\* pr.head.repo is None (the head repository was deleted); a PR keeps its
\* head repository from one call to the next
BaseRepo == "o/r"
HeadRepos == {"o/r", "f/r", "None"}

\* is_fork = head.repo is not None and base.repo is not None
\*           and head.repo.full_name != base.repo.full_name
IsForkNever(head_repo, base_repo) == FALSE

IsFork(head_repo, base_repo) ==
    /\ head_repo # "None"
    /\ base_repo # "None"
    /\ head_repo # base_repo

\* The findings of a call: n distinct findings on file a, on lines 1..13,
\* then on lines 1..13 again under the next title, and so on
PostTitles == <<<<"t">>, <<"u">>, <<"x">>, <<"y">>>>

PostFinding(i) ==
    Finding(<<"a">>, "logic", PostTitles[((i - 1) \div 13) + 1],
            ((i - 1) % 13) + 1, "LOW", <<"s">>, "None")

PostFindings(n) == [i \in 1..n |-> PostFinding(i)]

\* The diff of a call: empty, or file a with one hunk of k added lines
PostDiff(k) ==
    IF k = 0 THEN <<>>
    ELSE <<DiffLine("file", <<"a">>, 0, <<>>), DiffLine("hunk", NoFile, 1, <<>>)>>
         \o [i \in 1..k |-> DiffLine("text", NoFile, 0, <<"+", "x">>)]

\* (number of findings, number of added lines) of the calls
PostScenarios == {<<0, 0>>, <<2, 1>>, <<51, 13>>}

PostPriors == {<<>>, <<PriorEntry("n1", Fingerprint(PostFinding(1))),
                      PriorEntry("n4", Fingerprint(RsZ))>>}

RECURSIVE ParseDiffLoop(_, _)
\* The state of the parser after the first n lines
ParseDiffLoop(lines, n) ==
    IF n = 0
    THEN [result |-> EmptyMap, current_file |-> NoFile, right_line |-> 0]
    ELSE ParseDiffLine(ParseDiffLoop(lines, n - 1), lines[n])

\* parse_diff_lines(diff_text)
ParseDiffLines(lines) == ParseDiffLoop(lines, Len(lines)).result

\* format_summary_comment: the parts of the body that depend on the
\* arguments; markers is the set of n whose marker grippy-summary-n the body
\* contains
FormatSummaryComment(finding_count, new_count, persists_count, resolved_count, off_diff_findings, pr_number) ==
    [finding_count |-> finding_count,
     delta |-> <<new_count, persists_count, resolved_count>>,
     off_diff |-> off_diff_findings,
     markers |-> {pr_number}]

\* A comment somebody else wrote; it quotes the marker of another PR
ForeignComment ==
    [finding_count |-> 0, delta |-> <<0, 0, 0>>, off_diff |-> <<>>, markers |-> {2}]

\* `marker in comment.body`
MarkerIn(body, pr_number) == pr_number \in body.markers

\* A slice that runs to the end of the list
SliceToEnd(list, i) == SubSeq(list, i + 1, Len(list))

\* list[i : i + _REVIEW_BATCH_SIZE]
BatchSlice(list, i) ==
    SubSeq(list, i + 1,
           IF i + ReviewBatchSize < Len(list) THEN i + ReviewBatchSize ELSE Len(list))

\* An upsert that always creates
FirstMarkerNone(comments, pr_number) == 0

\* The first comment of get_issue_comments() whose body contains the marker
\* (0: none)
FirstMarker(comments, pr_number) ==
    IF \E i \in 1..Len(comments) : MarkerIn(comments[i], pr_number)
    THEN CHOOSE i \in 1..Len(comments) :
            /\ MarkerIn(comments[i], pr_number)
            /\ \A j \in 1..(i - 1) : ~MarkerIn(comments[j], pr_number)
    ELSE 0

NoSummary == [finding_count |-> 0, delta |-> <<0, 0, 0>>, off_diff |-> <<>>,
              markers |-> {}]

InitPost ==
    /\ po_pc = "ready"
    /\ po_calls = 0
    /\ po_pr_number = 1
    /\ po_head_repo \in HeadRepos
    /\ po_findings = <<>>
    /\ po_inline = <<>>
    /\ po_off_diff = <<>>
    /\ po_failed = <<>>
    /\ po_next = 0
    /\ po_attempts = <<>>
    /\ po_comments \in {<<>>, <<ForeignComment>>}
    /\ po_result = "none"
    /\ po_summary = NoSummary
    /\ po_returned = 0
    /\ po_created = 0
    /\ po_edited = 0

\* post_review up to the batch loop: resolution, is_fork, parse_diff_lines,
\* classify_findings, and the fork override
PostReviewStart ==
    /\ po_pc = "ready"
    /\ po_calls < MaxPostCalls
    /\ \E sc \in PostScenarios, prior \in PostPriors :
        LET findings == PostFindings(sc[1])
            resolution == ResolveFindingsAgainstPrior(findings, prior)
            is_fork == IsFork(po_head_repo, BaseRepo)
            c == ClassifyFindings(findings, ParseDiffLines(PostDiff(sc[2])))
        IN /\ po_findings' = findings
           /\ po_inline' = IF is_fork THEN <<>> ELSE c.inline
           /\ po_off_diff' = IF is_fork THEN findings ELSE c.off_diff
           /\ po_summary' = FormatSummaryComment(Len(findings),
                                Len(resolution.new), Len(resolution.persisting),
                                Len(resolution.resolved), <<>>, po_pr_number)
    /\ po_pc' = "batches"
    /\ po_calls' = po_calls + 1
    /\ po_failed' = <<>>
    /\ po_next' = 0
    /\ po_attempts' = <<>>
    /\ po_result' = "none"
    /\ UNCHANGED <<po_pr_number, po_head_repo, po_comments, po_returned,
                   po_created, po_edited>>
    /\ UNCHANGED notPost

\* One iteration of the batch loop: pr.create_review(event="COMMENT",
\* comments=batch) succeeds
SubmitBatch ==
    /\ po_pc = "batches"
    /\ po_next < Len(po_inline)
    /\ po_attempts' = Append(po_attempts,
            [batch |-> BatchSlice(po_inline, po_next), outcome |-> "ok"])
    /\ po_next' = po_next + ReviewBatchSize
    /\ UNCHANGED <<po_pc, po_calls, po_pr_number, po_head_repo, po_findings,
                   po_inline, po_off_diff, po_failed, po_comments, po_result,
                   po_summary, po_returned, po_created, po_edited>>
    /\ UNCHANGED notPost

\* create_review raises GithubException with status 422:
\* failed_findings.extend(inline[i : i + _REVIEW_BATCH_SIZE])
SubmitBatch422 ==
    /\ po_pc = "batches"
    /\ po_next < Len(po_inline)
    /\ po_attempts' = Append(po_attempts,
            [batch |-> BatchSlice(po_inline, po_next), outcome |-> "422"])
    /\ po_failed' = po_failed \o BatchSlice(po_inline, po_next)
    /\ po_next' = po_next + ReviewBatchSize
    /\ UNCHANGED <<po_pc, po_calls, po_pr_number, po_head_repo, po_findings,
                   po_inline, po_off_diff, po_comments, po_result,
                   po_summary, po_returned, po_created, po_edited>>
    /\ UNCHANGED notPost

\* create_review raises GithubException with another status: `raise`
SubmitBatchRaises ==
    /\ po_pc = "batches"
    /\ po_next < Len(po_inline)
    /\ po_attempts' = Append(po_attempts,
            [batch |-> BatchSlice(po_inline, po_next), outcome |-> "error"])
    /\ po_pc' = "ready"
    /\ po_result' = "raised"
    /\ UNCHANGED <<po_calls, po_pr_number, po_head_repo, po_findings, po_inline,
                   po_off_diff, po_failed, po_next, po_comments,
                   po_summary, po_returned, po_created, po_edited>>
    /\ UNCHANGED notPost

\* An off-diff section without the findings of the failed batches
OffDiffWithoutFailed == po_off_diff

\* off_diff.extend(failed_findings) and the summary of this call
FinalOffDiff == po_off_diff \o po_failed

FinalSummary == [po_summary EXCEPT !.off_diff = FinalOffDiff]

\* After the loop: a comment carries the marker: comment.edit(summary)
EditSummaryComment ==
    /\ po_pc = "batches"
    /\ po_next >= Len(po_inline)
    /\ FirstMarker(po_comments, po_pr_number) # 0
    /\ po_comments' = [po_comments EXCEPT
                         ![FirstMarker(po_comments, po_pr_number)] = FinalSummary]
    /\ po_edited' = po_edited + 1
    /\ po_off_diff' = FinalOffDiff
    /\ po_summary' = FinalSummary
    /\ po_pc' = "ready"
    /\ po_result' = "returned"
    /\ po_returned' = po_returned + 1
    /\ UNCHANGED <<po_calls, po_pr_number, po_head_repo, po_findings, po_inline,
                   po_failed, po_next, po_attempts, po_created>>
    /\ UNCHANGED notPost

\* After the loop: no comment carries the marker: pr.create_issue_comment(summary)
CreateSummaryComment ==
    /\ po_pc = "batches"
    /\ po_next >= Len(po_inline)
    /\ FirstMarker(po_comments, po_pr_number) = 0
    /\ po_comments' = Append(po_comments, FinalSummary)
    /\ po_created' = po_created + 1
    /\ po_off_diff' = FinalOffDiff
    /\ po_summary' = FinalSummary
    /\ po_pc' = "ready"
    /\ po_result' = "returned"
    /\ po_returned' = po_returned + 1
    /\ UNCHANGED <<po_calls, po_pr_number, po_head_repo, po_findings, po_inline,
                   po_failed, po_next, po_attempts, po_edited>>
    /\ UNCHANGED notPost

\* Somebody else comments on the PR between two calls
ForeignCommentPosted ==
    /\ po_pc = "ready"
    /\ Len(po_comments) < 2
    /\ po_comments' = Append(po_comments, ForeignComment)
    /\ UNCHANGED <<po_pc, po_calls, po_pr_number, po_head_repo, po_findings,
                   po_inline, po_off_diff, po_failed, po_next, po_attempts,
                   po_result, po_summary, po_returned, po_created, po_edited>>
    /\ UNCHANGED notPost

PostNext ==
    \/ PostReviewStart
    \/ SubmitBatch \/ SubmitBatch422 \/ SubmitBatchRaises
    \/ EditSummaryComment \/ CreateSummaryComment
    \/ ForeignCommentPosted

IdlePost ==
    /\ po_pc = "idle"
    /\ po_calls = 0
    /\ po_pr_number = 1
    /\ po_head_repo = BaseRepo
    /\ po_findings = <<>>
    /\ po_inline = <<>>
    /\ po_off_diff = <<>>
    /\ po_failed = <<>>
    /\ po_next = 0
    /\ po_attempts = <<>>
    /\ po_comments = <<>>
    /\ po_result = "none"
    /\ po_summary = NoSummary
    /\ po_returned = 0
    /\ po_created = 0
    /\ po_edited = 0

-----------------------------------------------------------------------------
(* review.py: _with_timeout *)

\* The SIGALRM handler that was installed before the call
OldHandler == "old_handler"

\* No alarm is set
NoAlarm == -1

\* The alarm is set and its time has come
AlarmDue == tw_alarm # NoAlarm /\ tw_now >= tw_alarm

\* The main thread executes its next instruction: no signal waits for its
\* handler, and the kernel has delivered every alarm whose time has come
MainThreadRuns == ~tw_pending /\ ~AlarmDue

InitTimeout ==
    /\ tw_pc = "call"
    /\ tw_timeout \in -1..MaxTimeout
    /\ tw_now = 0
    /\ tw_alarm = NoAlarm
    /\ tw_deadline = NoAlarm
    /\ tw_pending = FALSE
    /\ tw_handler = OldHandler
    /\ tw_fn = "not_started"
    /\ tw_fn_done_at = NoAlarm
    /\ tw_exc = "none"
    /\ tw_outcome = "none"

\* if timeout_seconds <= 0: return fn()
CallWithoutTimeout ==
    /\ tw_pc = "call"
    /\ tw_timeout <= 0
    /\ \E raised \in BOOLEAN :
        /\ tw_fn' = IF raised THEN "raised" ELSE "returned"
        /\ tw_outcome' = IF raised THEN "FnError" ELSE "result"
    /\ tw_fn_done_at' = tw_now
    /\ tw_pc' = "done"
    /\ UNCHANGED <<tw_timeout, tw_now, tw_alarm, tw_deadline, tw_pending,
                   tw_handler, tw_exc>>
    /\ UNCHANGED notTimeout

\* old_handler = signal.signal(signal.SIGALRM, _handler)
InstallHandler ==
    /\ tw_pc = "call"
    /\ tw_timeout > 0
    /\ tw_handler' = "_handler"
    /\ tw_pc' = "installed"
    /\ UNCHANGED <<tw_timeout, tw_now, tw_alarm, tw_deadline, tw_pending,
                   tw_fn, tw_fn_done_at, tw_exc, tw_outcome>>
    /\ UNCHANGED notTimeout

\* signal.alarm(timeout_seconds); try: fn() starts
SetAlarm ==
    /\ tw_pc = "installed"
    /\ tw_alarm' = tw_now + tw_timeout
    /\ tw_deadline' = tw_now + tw_timeout
    /\ tw_fn' = "running"
    /\ tw_pc' = "running"
    /\ UNCHANGED <<tw_timeout, tw_now, tw_pending, tw_handler, tw_fn_done_at,
                   tw_exc, tw_outcome>>
    /\ UNCHANGED notTimeout

\* fn() returns its result; control passes to the finally block
FnReturns ==
    /\ tw_pc = "running"
    /\ MainThreadRuns
    /\ tw_fn' = "returned"
    /\ tw_fn_done_at' = tw_now
    /\ tw_pc' = "cleanup_alarm"
    /\ UNCHANGED <<tw_timeout, tw_now, tw_alarm, tw_deadline, tw_pending,
                   tw_handler, tw_exc, tw_outcome>>
    /\ UNCHANGED notTimeout

\* fn() raises an exception of its own; control passes to the finally block
FnRaises ==
    /\ tw_pc = "running"
    /\ MainThreadRuns
    /\ tw_fn' = "raised"
    /\ tw_fn_done_at' = tw_now
    /\ tw_exc' = "FnError"
    /\ tw_pc' = "cleanup_alarm"
    /\ UNCHANGED <<tw_timeout, tw_now, tw_alarm, tw_deadline, tw_pending,
                   tw_handler, tw_outcome>>
    /\ UNCHANGED notTimeout

\* Time passes while the call is in progress
Tick ==
    /\ tw_pc \in {"installed", "running", "cleanup_alarm", "cleanup_handler"}
    /\ tw_now < MaxClock
    /\ MainThreadRuns
    /\ tw_now' = tw_now + 1
    /\ UNCHANGED <<tw_pc, tw_timeout, tw_alarm, tw_deadline, tw_pending,
                   tw_handler, tw_fn, tw_fn_done_at, tw_exc, tw_outcome>>
    /\ UNCHANGED notTimeout

\* The kernel delivers SIGALRM when the time of the alarm has come
AlarmFires ==
    /\ AlarmDue
    /\ tw_alarm' = NoAlarm
    /\ tw_pending' = TRUE
    /\ UNCHANGED <<tw_pc, tw_timeout, tw_now, tw_deadline, tw_handler, tw_fn,
                   tw_fn_done_at, tw_exc, tw_outcome>>
    /\ UNCHANGED notTimeout

\* _handler runs in the main thread before its next instruction and raises
\* TimeoutError: inside fn() it aborts fn and control enters the finally
\* block; inside the finally block the exception leaves the block at once,
\* so the rest of the block is skipped and whatever was being returned or
\* raised is replaced by the TimeoutError
HandlerRaises ==
    /\ tw_pending
    /\ tw_handler = "_handler"
    /\ tw_pending' = FALSE
    /\ tw_exc' = "TimeoutError"
    /\ IF tw_pc = "running"
       THEN /\ tw_fn' = "aborted"
            /\ tw_pc' = "cleanup_alarm"
            /\ UNCHANGED tw_outcome
       ELSE /\ tw_pc' = "done"
            /\ tw_outcome' = "TimeoutError"
            /\ UNCHANGED tw_fn
    /\ UNCHANGED <<tw_timeout, tw_now, tw_alarm, tw_deadline, tw_handler,
                   tw_fn_done_at>>
    /\ UNCHANGED notTimeout

\* finally: signal.alarm(0)
CancelAlarm ==
    /\ tw_pc = "cleanup_alarm"
    /\ MainThreadRuns
    /\ tw_alarm' = NoAlarm
    /\ tw_pc' = "cleanup_handler"
    /\ UNCHANGED <<tw_timeout, tw_now, tw_deadline, tw_pending, tw_handler,
                   tw_fn, tw_fn_done_at, tw_exc, tw_outcome>>
    /\ UNCHANGED notTimeout

\* finally: signal.signal(signal.SIGALRM, old_handler); then the return
\* value or the exception leaves the function
RestoreHandler ==
    /\ tw_pc = "cleanup_handler"
    /\ MainThreadRuns
    /\ tw_handler' = OldHandler
    /\ tw_outcome' = IF tw_exc = "none" THEN "result" ELSE tw_exc
    /\ tw_pc' = "done"
    /\ UNCHANGED <<tw_timeout, tw_now, tw_alarm, tw_deadline, tw_pending,
                   tw_fn, tw_fn_done_at, tw_exc>>
    /\ UNCHANGED notTimeout

TimeoutNext ==
    \/ CallWithoutTimeout
    \/ InstallHandler \/ SetAlarm
    \/ FnReturns \/ FnRaises
    \/ Tick \/ AlarmFires \/ HandlerRaises
    \/ CancelAlarm \/ RestoreHandler

IdleTimeout ==
    /\ tw_pc = "idle"
    /\ tw_timeout = 0
    /\ tw_now = 0
    /\ tw_alarm = NoAlarm
    /\ tw_deadline = NoAlarm
    /\ tw_pending = FALSE
    /\ tw_handler = OldHandler
    /\ tw_fn = "not_started"
    /\ tw_fn_done_at = NoAlarm
    /\ tw_exc = "none"
    /\ tw_outcome = "none"

-----------------------------------------------------------------------------
(* review.py: truncate_diff *)

\* The characters of a diff text: "H" is the text 'diff --git ' at the start
\* of a line (the header of a file block), "M" is the same text inside a
\* line, "c" is any other character
TdChars == {"H", "M", "c"}

\* len('diff --git ')
MarkerLen == 11

\* The text 'diff --git ', wherever it stands
IsMarker(c) == c \in {"H", "M"}

RECURSIVE TextLen(_)
\* len(text)
TextLen(t) ==
    IF t = <<>> THEN 0
    ELSE (IF IsMarker(Head(t)) THEN MarkerLen ELSE 1) + TextLen(Tail(t))

\* The positions at which text t holds a separator of the set seps
SepPositions(t, seps) == {i \in 1..Len(t) : t[i] \in seps}

\* parts[0] of t.split(sep): the text before the first separator
SplitPreamble(t, seps) ==
    IF SepPositions(t, seps) = {} THEN t
    ELSE SubSeq(t, 1, (CHOOSE i \in SepPositions(t, seps) :
                          \A j \in SepPositions(t, seps) : i <= j) - 1)

RECURSIVE SplitBlocksFrom(_, _, _)
\* [sep + p for p in parts[1:]], from position i on: each block runs from a
\* separator to just before the next one
SplitBlocksFrom(t, seps, i) ==
    IF i > Len(t) THEN <<>>
    ELSE IF t[i] \notin seps THEN SplitBlocksFrom(t, seps, i + 1)
    ELSE LET later == {j \in SepPositions(t, seps) : j > i}
             stop == IF later = {} THEN Len(t) + 1
                     ELSE CHOOSE j \in later : \A k \in later : j <= k
         IN <<SubSeq(t, i, stop - 1)>> \o SplitBlocksFrom(t, seps, stop)

\* file_blocks = [f"diff --git {p}" for p in diff.split("diff --git ")[1:]]
FileBlocks(diff) == SplitBlocksFrom(diff, {"H", "M"}, 1)

RECURSIVE ConcatTexts(_)
\* "".join(texts)
ConcatTexts(texts) ==
    IF texts = <<>> THEN <<>> ELSE Head(texts) \o ConcatTexts(Tail(texts))

RECURSIVE KeepBlocks(_, _, _, _)
\* for block in file_blocks: if total + len(block) > max_chars and kept:
\* break; kept.append(block); total += len(block)
KeepBlocks(blocks, kept, total, max_chars) ==
    IF blocks = <<>> THEN kept
    ELSE IF total + TextLen(Head(blocks)) > max_chars /\ kept # <<>> THEN kept
    ELSE KeepBlocks(Tail(blocks), Append(kept, Head(blocks)),
                    total + TextLen(Head(blocks)), max_chars)

\* The text the function appends: f"\n\n... {truncated_count} file(s)
\* truncated (diff exceeded {max_chars} chars) (truncated)"; <<>> is no notice
TruncationNotice(truncated_count, max_chars) == <<truncated_count, max_chars>>

\* truncate_diff(diff, max_chars): the body of the result and its notice
TruncateDiff(diff, max_chars) ==
    IF TextLen(diff) <= max_chars THEN [body |-> diff, notice |-> <<>>]
    ELSE LET preamble == SplitPreamble(diff, {"H", "M"})
             file_blocks == FileBlocks(diff)
             kept == KeepBlocks(file_blocks, <<>>, TextLen(preamble), max_chars)
             truncated_count == Len(file_blocks) - Len(kept)
         IN [body |-> preamble \o ConcatTexts(kept),
             notice |-> IF truncated_count > 0
                        THEN TruncationNotice(truncated_count, max_chars)
                        ELSE <<>>]

NoTruncation == [body |-> <<>>, notice |-> <<>>]

InitTruncate ==
    /\ td_diff \in SeqsOf(TdChars, 0, MaxDiffTokens)
    /\ td_max_chars \in 0..MaxChars
    /\ td_done = FALSE
    /\ td_result = NoTruncation

\* A call truncate_diff(td_diff, td_max_chars) of a diff within the cap
TruncateSmallDiff ==
    /\ ~td_done
    /\ TextLen(td_diff) <= td_max_chars
    /\ td_result' = TruncateDiff(td_diff, td_max_chars)
    /\ td_done' = TRUE
    /\ UNCHANGED <<td_diff, td_max_chars>>
    /\ UNCHANGED notTruncate

\* A call truncate_diff(td_diff, td_max_chars) of a diff over the cap
TruncateLargeDiff ==
    /\ ~td_done
    /\ TextLen(td_diff) > td_max_chars
    /\ td_result' = TruncateDiff(td_diff, td_max_chars)
    /\ td_done' = TRUE
    /\ UNCHANGED <<td_diff, td_max_chars>>
    /\ UNCHANGED notTruncate

TruncateNext == TruncateSmallDiff \/ TruncateLargeDiff

IdleTruncate ==
    /\ td_diff = <<>>
    /\ td_max_chars = 0
    /\ td_done = FALSE
    /\ td_result = NoTruncation

-----------------------------------------------------------------------------
(* graph.py: review_to_graph, applied to the reviews of a pool *)

\* Findings on one file: two lines, a title in two spellings, and a
\* governance rule that is None, empty or R1
GraphPool ==
    {Finding(<<"a">>, c, t, l, "LOW", <<"s">>, r) :
        c \in {"logic", "security"}, t \in {<<"t">>, <<"T">>}, l \in 1..2,
        r \in {"None", "", "R1"}}

NoGraph == [review_id |-> <<>>, nodes |-> <<>>]

InitGraph ==
    /\ gr_review \in {Review(<<"1">>, <<"x">>, fs) :
                        fs \in SeqsOf(GraphPool, 0, MaxFindings)}
    /\ gr_graph = NoGraph
    /\ gr_done = FALSE

\* graph = review_to_graph(review)
BuildGraph ==
    /\ ~gr_done
    /\ gr_graph' = ReviewToGraph(gr_review)
    /\ gr_done' = TRUE
    /\ UNCHANGED gr_review
    /\ UNCHANGED notGraph

GraphNext == BuildGraph

IdleGraph ==
    /\ gr_review = Review(<<"1">>, <<"x">>, <<>>)
    /\ gr_graph = NoGraph
    /\ gr_done = FALSE

-----------------------------------------------------------------------------
(* codebase.py: chunk_file *)

\* The characters of a file text
ChunkChars == {"x", "\n"}

\* An overlap that is taken as given
KeepOverlap(overlap, max_chunk_chars) == overlap

\* if overlap >= max_chunk_chars: overlap = max(0, max_chunk_chars - 1)
ClampOverlap(overlap, max_chunk_chars) ==
    IF overlap >= max_chunk_chars
    THEN (IF max_chunk_chars - 1 > 0 THEN max_chunk_chars - 1 ELSE 0)
    ELSE overlap

\* not text.strip(): the text holds whitespace only
IsBlankText(text) == \A i \in 1..Len(text) : text[i] \in {" ", "\n"}

\* s.count("\n")
CountNewlines(s) == Cardinality({i \in 1..Len(s) : s[i] = "\n"})

\* text[a:b] for 0 <= a <= b <= len(text)
Slice(text, a, b) == SubSeq(text, a + 1, b)

\* One chunk dict (file_path is the same in all of them)
Chunk(idx, start_line, end_line, text) ==
    [chunk_index |-> idx, start_line |-> start_line, end_line |-> end_line,
     text |-> text]

InitChunk ==
    /\ ck_text \in SeqsOf(ChunkChars, 0, MaxTextLen)
    /\ ck_max \in 1..MaxChunkChars
    /\ ck_overlap_arg \in 0..MaxOverlap
    /\ ck_overlap = 0
    /\ ck_pc = "call"
    /\ ck_pos = 0
    /\ ck_chunks = <<>>

\* path.read_text raises OSError: return []
ChunkReadFails ==
    /\ ck_pc = "call"
    /\ ck_pc' = "done"
    /\ ck_overlap' = ClampOverlap(ck_overlap_arg, ck_max)
    /\ UNCHANGED <<ck_text, ck_max, ck_overlap_arg, ck_pos, ck_chunks>>
    /\ UNCHANGED notChunk

\* The function up to the loop: the clamp, the blank file (return []), the
\* file that fits one chunk, and char_pos = 0 for a larger one
ChunkStart ==
    /\ ck_pc = "call"
    /\ ck_overlap' = ClampOverlap(ck_overlap_arg, ck_max)
    /\ IF IsBlankText(ck_text)
       THEN ck_pc' = "done" /\ ck_chunks' = <<>>
       ELSE IF Len(ck_text) <= ck_max
       THEN /\ ck_pc' = "done"
            /\ ck_chunks' = <<Chunk(0, 1, CountNewlines(ck_text)
                                           + (IF ck_text[Len(ck_text)] = "\n"
                                              THEN 0 ELSE 1), ck_text)>>
       ELSE ck_pc' = "loop" /\ ck_chunks' = <<>>
    /\ UNCHANGED <<ck_text, ck_max, ck_overlap_arg, ck_pos>>
    /\ UNCHANGED notChunk

\* One iteration of `while char_pos < len(text)`
ChunkIteration ==
    /\ ck_pc = "loop"
    /\ ck_pos < Len(ck_text)
    /\ Len(ck_chunks) <= MaxTextLen + 1
    /\ LET end_pos == IF ck_pos + ck_max < Len(ck_text)
                      THEN ck_pos + ck_max ELSE Len(ck_text)
           chunk_text == Slice(ck_text, ck_pos, end_pos)
           start_line == CountNewlines(Slice(ck_text, 0, ck_pos)) + 1
       IN /\ ck_chunks' = Append(ck_chunks,
                Chunk(Len(ck_chunks), start_line,
                      start_line + CountNewlines(chunk_text), chunk_text))
          /\ ck_pos' = IF end_pos < Len(ck_text) THEN end_pos - ck_overlap
                       ELSE end_pos
    /\ UNCHANGED <<ck_text, ck_max, ck_overlap_arg, ck_overlap, ck_pc>>
    /\ UNCHANGED notChunk

\* The loop condition fails: return chunks
ChunkReturn ==
    /\ ck_pc = "loop"
    /\ ck_pos >= Len(ck_text)
    /\ ck_pc' = "done"
    /\ UNCHANGED <<ck_text, ck_max, ck_overlap_arg, ck_overlap, ck_pos, ck_chunks>>
    /\ UNCHANGED notChunk

ChunkNext == ChunkReadFails \/ ChunkStart \/ ChunkIteration \/ ChunkReturn

IdleChunk ==
    /\ ck_text = <<>>
    /\ ck_max = 1
    /\ ck_overlap_arg = 0
    /\ ck_overlap = 0
    /\ ck_pc = "idle"
    /\ ck_pos = 0
    /\ ck_chunks = <<>>

-----------------------------------------------------------------------------
(* codebase.py: the read_file and list_files tools *)

\* Names of path segments, as their characters
SegNames == {<<".">>, <<".", ".">>, <<"a">>, <<"a", "b">>, <<"f">>}

\* The canonical repo root /a; /ab is a directory next to it
RepoRoot == << <<"a">> >>

\* The directories and the files of the file system, by canonical path
FsDirs == {<<>>, << <<"a">> >>, << <<"a", "b">> >>, << <<"f">> >>}

FsFiles == {<< <<"a">>, <<"f">> >>, << <<"a", "b">>, <<"f">> >>}

\* The path arguments a tool can be called with
ToolPaths ==
    [absolute : BOOLEAN, segs : SeqsOf(SegNames, 0, MaxPathSegs)]

\* repo_root / path: an absolute path replaces the root
JoinRoot(path) == IF path.absolute THEN path.segs ELSE RepoRoot \o path.segs

\* Path.resolve() in a file system without symbolic links
RECURSIVE ResolveFrom(_, _)
ResolveFrom(done, segs) ==
    IF segs = <<>> THEN done
    ELSE IF Head(segs) = <<".">> THEN ResolveFrom(done, Tail(segs))
    ELSE IF Head(segs) = <<".", ".">>
    THEN ResolveFrom(IF done = <<>> THEN <<>>
                     ELSE SubSeq(done, 1, Len(done) - 1), Tail(segs))
    ELSE ResolveFrom(Append(done, Head(segs)), Tail(segs))

ResolvePath(segs) == ResolveFrom(<<>>, segs)

\* str(path) of a canonical path
RECURSIVE PathStr(_)
PathStr(segs) ==
    IF segs = <<>> THEN <<>>
    ELSE <<"/">> \o Head(segs) \o PathStr(Tail(segs))

\* entry.relative_to(repo_root) succeeds: the root's parts lead the entry's
IsRelativeTo(segs, root) ==
    /\ Len(root) <= Len(segs)
    /\ SubSeq(segs, 1, Len(root)) = root

\* not str(target).startswith(str(repo_root.resolve())) is false
PassesTraversalGuard(target) ==
    StartsWith(PathStr(target), PathStr(ResolvePath(RepoRoot)))

ToolResult(kind, target) == [kind |-> kind, target |-> target]

ReadFile(path) ==
    LET target == ResolvePath(JoinRoot(path))
    IN IF ~PassesTraversalGuard(target)
       THEN ToolResult("Error: path traversal not allowed.", target)
       ELSE IF target \notin FsFiles
       THEN ToolResult("File not found", target)
       ELSE ToolResult("content", target)

\* list_files with the default glob pattern "*"
ListFiles(path) ==
    LET target == ResolvePath(JoinRoot(path))
        entries == {e \in FsDirs \cup FsFiles :
                        /\ Len(e) = Len(target) + 1
                        /\ IsRelativeTo(e, target)}
    IN IF ~PassesTraversalGuard(target)
       THEN ToolResult("Error: path traversal not allowed.", target)
       ELSE IF target \notin FsDirs
       THEN ToolResult("Directory not found", target)
       ELSE IF \E e \in entries : ~IsRelativeTo(e, RepoRoot)
       THEN ToolResult("ValueError", target)
       ELSE IF entries = {}
       THEN ToolResult("No files matching", target)
       ELSE ToolResult("listing", target)

NoToolResult == ToolResult("none", <<>>)

InitTools ==
    /\ ct_path \in ToolPaths
    /\ ct_tool = "none"
    /\ ct_result = NoToolResult

CallReadFile ==
    /\ ct_tool = "none"
    /\ ct_tool' = "read_file"
    /\ ct_result' = ReadFile(ct_path)
    /\ UNCHANGED ct_path
    /\ UNCHANGED notTools

CallListFiles ==
    /\ ct_tool = "none"
    /\ ct_tool' = "list_files"
    /\ ct_result' = ListFiles(ct_path)
    /\ UNCHANGED ct_path
    /\ UNCHANGED notTools

ToolsNext == CallReadFile \/ CallListFiles

IdleTools ==
    /\ ct_path = [absolute |-> FALSE, segs |-> <<>>]
    /\ ct_tool = "idle"
    /\ ct_result = NoToolResult

-----------------------------------------------------------------------------
(* navi_bootstrap/engine.py: _write_append *)

\* A file is a sequence of lines, each ended by a newline
TextLine(text) == [kind |-> "text", pack |-> "", text |-> text]

\* _MARKER_START: "# --- nboot: {pack_name} ---"
MarkerStart(pack_name) == [kind |-> "start", pack |-> pack_name, text |-> ""]

\* _MARKER_END: "# --- end nboot: {pack_name} ---"
MarkerEnd(pack_name) == [kind |-> "end", pack |-> pack_name, text |-> ""]

Packs == {"pack-a", "pack-b"}

\* Rendered contents: sequences of text lines
Rendereds == {<<>>, <<TextLine("1")>>, <<TextLine("2")>>}

\* block = f"{marker_start}\n{rendered}{marker_end}\n"
MarkerBlock(rendered, pack_name) ==
    <<MarkerStart(pack_name)>> \o rendered \o <<MarkerEnd(pack_name)>>

\* Line i starts a match of _MARKER_RE: a start marker of some pack with an
\* end marker of the same pack after it
MarkerMatchAt(lines, i) ==
    /\ lines[i].kind = "start"
    /\ \E j \in (i + 1)..Len(lines) : lines[j] = MarkerEnd(lines[i].pack)

\* _MARKER_RE.sub("", existing, count=1): the leftmost match, up to the
\* nearest end marker of its pack (.*? is lazy), is removed
MarkerReSub(lines) ==
    LET starts == {i \in 1..Len(lines) : MarkerMatchAt(lines, i)}
    IN IF starts = {} THEN lines
       ELSE LET i == CHOOSE k \in starts : \A m \in starts : k <= m
                ends == {j \in (i + 1)..Len(lines) :
                            lines[j] = MarkerEnd(lines[i].pack)}
                j == CHOOSE k \in ends : \A m \in ends : k <= m
            IN SubSeq(lines, 1, i - 1) \o SubSeq(lines, j + 1, Len(lines))

\* _write_append(output_path, rendered, pack_name): the file afterwards
WriteAppend(file, rendered, pack_name) ==
    LET block == MarkerBlock(rendered, pack_name)
    IN IF file.exists
       THEN IF \E i \in 1..Len(file.lines) : file.lines[i] = MarkerStart(pack_name)
            THEN [exists |-> TRUE,
                  lines |-> MarkerReSub(file.lines) \o block]
            ELSE [exists |-> TRUE, lines |-> file.lines \o block]
       ELSE [exists |-> TRUE, lines |-> block]

NotWritten == [written |-> FALSE, rendered |-> <<>>]

InitAppend ==
    /\ ap_file \in {[exists |-> FALSE, lines |-> <<>>],
                    [exists |-> TRUE, lines |-> <<>>],
                    [exists |-> TRUE, lines |-> <<TextLine("u")>>]}
    /\ ap_initial = ap_file.lines
    /\ ap_latest = [p \in Packs |-> NotWritten]
    /\ ap_ops = 0

\* write_rendered in append mode for one file of one pack
AppendCall ==
    /\ ap_ops < MaxAppends
    /\ \E pack_name \in Packs, rendered \in Rendereds :
        /\ ap_file' = WriteAppend(ap_file, rendered, pack_name)
        /\ ap_latest' = [ap_latest EXCEPT
                            ![pack_name] = [written |-> TRUE, rendered |-> rendered]]
    /\ ap_ops' = ap_ops + 1
    /\ UNCHANGED ap_initial
    /\ UNCHANGED notAppend

AppendNext == AppendCall

IdleAppend ==
    /\ ap_file = [exists |-> FALSE, lines |-> <<>>]
    /\ ap_initial = <<>>
    /\ ap_latest = [p \in Packs |-> NotWritten]
    /\ ap_ops = 0

-----------------------------------------------------------------------------
(* codebase.py: CodebaseIndex.build *)

\* The chunks a walk of the source files can produce
IndexChunks == {"c1", "c2", "c3"}

\* all_chunks of one build: the chunks of the files found, in order
ChunkLists == SeqsOf(IndexChunks, 0, MaxBuildChunks)

\* lance_db.create_table(_CODEBASE_TABLE, data=all_chunks, mode="overwrite")
CreateTableOverwrite(table, all_chunks) == [exists |-> TRUE, rows |-> all_chunks]

\* CodebaseIndex.build() with the chunks it collected: the table afterwards
\* and what the call did (returned a count, or raised while embedding)
Build(table, all_chunks, embed_ok) ==
    IF all_chunks = <<>>
    THEN [table |-> table, returned |-> TRUE, count |-> 0]
    ELSE IF ~embed_ok
    THEN [table |-> table, returned |-> FALSE, count |-> 0]
    ELSE [table |-> CreateTableOverwrite(table, all_chunks), returned |-> TRUE,
          count |-> Len(all_chunks)]

InitIndex ==
    /\ ix_table = [exists |-> FALSE, rows |-> <<>>]
    /\ ix_last = [returned |-> FALSE, count |-> 0, chunks |-> <<>>]
    /\ ix_builds = 0

\* index.build()
BuildIndex ==
    /\ ix_builds < MaxBuilds
    /\ \E all_chunks \in ChunkLists, embed_ok \in BOOLEAN :
        LET b == Build(ix_table, all_chunks, embed_ok)
        IN /\ ix_table' = b.table
           /\ ix_last' = [returned |-> b.returned, count |-> b.count,
                          chunks |-> all_chunks]
    /\ ix_builds' = ix_builds + 1
    /\ UNCHANGED notIndex

IndexNext == BuildIndex

IdleIndex ==
    /\ ix_table = [exists |-> FALSE, rows |-> <<>>]
    /\ ix_last = [returned |-> FALSE, count |-> 0, chunks |-> <<>>]
    /\ ix_builds = 0

-----------------------------------------------------------------------------
(* Specifications: one per component, the other components idle. *)

RetryInit ==
    /\ InitRetry /\ IdleFp /\ IdleResolve /\ IdleDiff /\ IdleClassify /\ IdleStore
    /\ IdleMain /\ IdlePost /\ IdleTimeout /\ IdleTruncate /\ IdleGraph /\ IdleChunk /\ IdleTools /\ IdleAppend /\ IdleIndex

SpecRetry == RetryInit /\ [][RetryNext]_vars

FpInit ==
    /\ IdleRetry /\ InitFp /\ IdleResolve /\ IdleDiff /\ IdleClassify /\ IdleStore
    /\ IdleMain /\ IdlePost /\ IdleTimeout /\ IdleTruncate /\ IdleGraph /\ IdleChunk /\ IdleTools /\ IdleAppend /\ IdleIndex

SpecFp == FpInit /\ [][FpNext]_vars

ResolveInit ==
    /\ IdleRetry /\ IdleFp /\ InitResolve /\ IdleDiff /\ IdleClassify /\ IdleStore
    /\ IdleMain /\ IdlePost /\ IdleTimeout /\ IdleTruncate /\ IdleGraph /\ IdleChunk /\ IdleTools /\ IdleAppend /\ IdleIndex

SpecResolve == ResolveInit /\ [][ResolveNext]_vars

DiffInit ==
    /\ IdleRetry /\ IdleFp /\ IdleResolve /\ InitDiff /\ IdleClassify /\ IdleStore
    /\ IdleMain /\ IdlePost /\ IdleTimeout /\ IdleTruncate /\ IdleGraph /\ IdleChunk /\ IdleTools /\ IdleAppend /\ IdleIndex

SpecDiff == DiffInit /\ [][DiffNext]_vars

ClassifyInit ==
    /\ IdleRetry /\ IdleFp /\ IdleResolve /\ IdleDiff /\ InitClassify /\ IdleStore
    /\ IdleMain /\ IdlePost /\ IdleTimeout /\ IdleTruncate /\ IdleGraph /\ IdleChunk /\ IdleTools /\ IdleAppend /\ IdleIndex

SpecClassify == ClassifyInit /\ [][ClassifyNext]_vars

StoreInit ==
    /\ IdleRetry /\ IdleFp /\ IdleResolve /\ IdleDiff /\ IdleClassify /\ InitStore
    /\ IdleMain /\ IdlePost /\ IdleTimeout /\ IdleTruncate /\ IdleGraph /\ IdleChunk /\ IdleTools /\ IdleAppend /\ IdleIndex

SpecStore == StoreInit /\ [][StoreNext]_vars

MainInit ==
    /\ IdleRetry /\ IdleFp /\ IdleResolve /\ IdleDiff /\ IdleClassify /\ IdleStore
    /\ InitMain /\ IdlePost /\ IdleTimeout /\ IdleTruncate /\ IdleGraph /\ IdleChunk /\ IdleTools /\ IdleAppend /\ IdleIndex

SpecMain == MainInit /\ [][MainNext]_vars

PostInit ==
    /\ IdleRetry /\ IdleFp /\ IdleResolve /\ IdleDiff /\ IdleClassify /\ IdleStore
    /\ IdleMain /\ InitPost /\ IdleTimeout /\ IdleTruncate /\ IdleGraph /\ IdleChunk /\ IdleTools /\ IdleAppend /\ IdleIndex

SpecPost == PostInit /\ [][PostNext]_vars

TimeoutInit ==
    /\ IdleRetry /\ IdleFp /\ IdleResolve /\ IdleDiff /\ IdleClassify /\ IdleStore
    /\ IdleMain /\ IdlePost /\ InitTimeout /\ IdleTruncate /\ IdleGraph /\ IdleChunk /\ IdleTools /\ IdleAppend /\ IdleIndex

SpecTimeout == TimeoutInit /\ [][TimeoutNext]_vars

TruncateInit ==
    /\ IdleRetry /\ IdleFp /\ IdleResolve /\ IdleDiff /\ IdleClassify /\ IdleStore
    /\ IdleMain /\ IdlePost /\ IdleTimeout
    /\ InitTruncate /\ IdleGraph /\ IdleChunk /\ IdleTools /\ IdleAppend /\ IdleIndex

SpecTruncate == TruncateInit /\ [][TruncateNext]_vars

GraphInit ==
    /\ IdleRetry /\ IdleFp /\ IdleResolve /\ IdleDiff /\ IdleClassify /\ IdleStore
    /\ IdleMain /\ IdlePost /\ IdleTimeout /\ IdleTruncate
    /\ InitGraph /\ IdleChunk /\ IdleTools /\ IdleAppend /\ IdleIndex

SpecGraph == GraphInit /\ [][GraphNext]_vars

\* chunk_file runs to its end: a step that can be taken is taken (SpecChunk)
ChunkInit ==
    /\ IdleRetry /\ IdleFp /\ IdleResolve /\ IdleDiff /\ IdleClassify /\ IdleStore
    /\ IdleMain /\ IdlePost /\ IdleTimeout /\ IdleTruncate /\ IdleGraph
    /\ InitChunk /\ IdleTools /\ IdleAppend /\ IdleIndex

SpecChunk == ChunkInit /\ [][ChunkNext]_vars /\ WF_vars(ChunkNext)

ToolsInit ==
    /\ IdleRetry /\ IdleFp /\ IdleResolve /\ IdleDiff /\ IdleClassify /\ IdleStore
    /\ IdleMain /\ IdlePost /\ IdleTimeout /\ IdleTruncate /\ IdleGraph /\ IdleChunk
    /\ InitTools /\ IdleAppend /\ IdleIndex

SpecTools == ToolsInit /\ [][ToolsNext]_vars

AppendInit ==
    /\ IdleRetry /\ IdleFp /\ IdleResolve /\ IdleDiff /\ IdleClassify /\ IdleStore
    /\ IdleMain /\ IdlePost /\ IdleTimeout /\ IdleTruncate /\ IdleGraph /\ IdleChunk
    /\ IdleTools
    /\ InitAppend /\ IdleIndex

SpecAppend == AppendInit /\ [][AppendNext]_vars

IndexInit ==
    /\ IdleRetry /\ IdleFp /\ IdleResolve /\ IdleDiff /\ IdleClassify /\ IdleStore
    /\ IdleMain /\ IdlePost /\ IdleTimeout /\ IdleTruncate /\ IdleGraph /\ IdleChunk
    /\ IdleTools /\ IdleAppend
    /\ InitIndex

SpecIndex == IndexInit /\ [][IndexNext]_vars

-----------------------------------------------------------------------------
(* Properties of run_review (SpecRetry). *)

\* What a response holds for the caller: the review instance, the mapping, or,
\* for a string, the text between its first pair of fences if it has one and
\* the whole text otherwise.
HeldDocument(c) ==
    IF c.type \in {"review", "dict"} THEN c.whole
    ELSE IF c.type = "str" /\ ~c.blank THEN (IF c.fence THEN c.inner ELSE c.whole)
    ELSE "garbage"

\* A response that parses and validates
ParsesAndValidates(c) == HeldDocument(c) \in Reviews

AllResponsesFail == \A i \in 1..Len(contents) : ~ParsesAndValidates(contents[i])

\* C1: when every response fails parsing or validation, run_review calls
\* agent.run exactly max_retries + 1 times (once when max_retries = 0) and then
\* raises ReviewParseError with attempts = max_retries + 1; agent.run is never
\* called more than max_retries + 1 times.
C1_ExactlyMaxRetriesPlusOneAttempts ==
    /\ calls <= max_retries + 1
    /\ rr_pc = "raised" =>
          /\ calls = max_retries + 1
          /\ exc_attempts = max_retries + 1
          /\ Len(contents) = calls
          /\ AllResponsesFail
    /\ (rr_pc = "loop" /\ calls = max_retries + 1) =>
          /\ AllResponsesFail
          /\ ENABLED RaiseReviewParseError
          /\ ~ENABLED RunAttempt
          /\ ~ENABLED RunAttemptAgentRaises
    /\ (rr_pc = "loop" /\ calls < max_retries + 1) => ~ENABLED RaiseReviewParseError

\* One retry was allowed, both responses failed, ReviewParseError was raised
C1_Witness ==
    /\ rr_pc = "raised"
    /\ max_retries = 1
    /\ calls = 2
    /\ exc_attempts = 2
    /\ AllResponsesFail

FailedAttempts ==
    {i \in 1..Len(contents) : ~ParsesAndValidates(contents[i])}

\* C25: when a callback is supplied it is called once for each failed
\* attempt, in order, with the attempt numbers 1, 2, ... and the error of
\* that attempt, and not for the attempt that succeeds: when the first valid
\* response is attempt k, the callback has been called k - 1 times.  Without
\* a callback nothing is called.
C25_CallbackOncePerFailedAttempt ==
    /\ ~has_callback => callback_log = <<>>
    /\ has_callback =>
        /\ Len(callback_log) = Cardinality(FailedAttempts)
        /\ \A i \in 1..Len(callback_log) :
            /\ i \in FailedAttempts
            /\ callback_log[i] = <<i, errors[i][2]>>
            /\ errors[i][1] = i
        /\ rr_pc = "returned" =>
            /\ Len(contents) \notin FailedAttempts
            /\ Len(callback_log) = Len(contents) - 1

\* The third attempt returned a review and the callback was called for
\* attempts 1 and 2
C25_Witness ==
    /\ has_callback
    /\ rr_pc = "returned"
    /\ Len(contents) = 3
    /\ Len(callback_log) = 2

\* content is None, or a string that is empty after strip()
IsNoneOrEmpty(c) == c.type = "none" \/ (c.type = "str" /\ c.blank)

\* C26: a response whose content is None or an empty string is a validation
\* failure like any other: attempt i is recorded as entry i of the error
\* history, the callback (if any) is called with i, and when i <= max_retries
\* the loop goes on with attempt i + 1 and a retry message that quotes the
\* error, instead of raising.
C26_NoneAndEmptyAreValidationFailures ==
    \A i \in 1..Len(contents) :
        IsNoneOrEmpty(contents[i]) =>
            /\ Len(errors) >= i
            /\ errors[i] = <<i, "ValueError">>
            /\ has_callback =>
                (Len(callback_log) >= i /\ callback_log[i] = <<i, "ValueError">>)
            /\ (i = Len(contents) /\ ~agent_raised) =>
                /\ rr_pc \in {"loop", "raised"}
                /\ attempt = i + 1
                /\ i <= max_retries =>
                    /\ rr_pc = "loop"
                    /\ current_message = RetryMessage(i, "ValueError")
                    /\ ENABLED RunAttempt
                /\ i > max_retries => ~ENABLED RunAttempt

\* A None content and an empty string were followed by a third attempt that
\* returned a review
C26_Witness ==
    /\ has_callback
    /\ rr_pc = "returned"
    /\ Len(contents) = 3
    /\ contents[1].type = "none"
    /\ contents[2].type = "str" /\ contents[2].blank

-----------------------------------------------------------------------------
(* Properties of Finding.fingerprint (SpecFp). *)

\* (file.strip(), category, title.strip().lower())
FingerprintTriple(f) == <<Strip(f.file), f.category, Lower(Strip(f.title))>>

FingerprintsComputed == \A i \in 1..2 : fp_cache[i] # <<"unset">>

\* C4: two findings that agree on (file.strip(), category,
\* title.strip().lower()) have equal fingerprints, whatever their line
\* number, severity, suggestion and the other fields are.
C4_FingerprintDependsOnTripleOnly ==
    (FingerprintsComputed /\ FingerprintTriple(fp_findings[1]) = FingerprintTriple(fp_findings[2]))
        => fp_cache[1] = fp_cache[2]

\* Two findings with the same triple that differ in the raw file and title
\* text, the line, the severity and the suggestion, both fingerprints computed
C4_Witness ==
    /\ FingerprintsComputed
    /\ FingerprintTriple(fp_findings[1]) = FingerprintTriple(fp_findings[2])
    /\ fp_findings[1].file # fp_findings[2].file
    /\ fp_findings[1].title # fp_findings[2].title
    /\ fp_findings[1].line_start # fp_findings[2].line_start
    /\ fp_findings[1].severity # fp_findings[2].severity
    /\ fp_findings[1].suggestion # fp_findings[2].suggestion

-----------------------------------------------------------------------------
(* Properties of resolve_findings_against_prior (SpecResolve). *)

NewFingerprints == {Fingerprint(rs_result.new[i]) : i \in 1..Len(rs_result.new)}

PersistingFingerprints ==
    {Fingerprint(rs_result.persisting[i].finding) : i \in 1..Len(rs_result.persisting)}

ResolvedFingerprints ==
    {rs_result.resolved[i].fingerprint : i \in 1..Len(rs_result.resolved)}

CurrentFingerprints == {Fingerprint(rs_current[i]) : i \in 1..Len(rs_current)}

PriorFingerprints == {rs_prior[i].fingerprint : i \in 1..Len(rs_prior)}

\* C3: the fingerprint sets of new, persisting and resolved are pairwise
\* disjoint and their union is the set of fingerprints of current and prior;
\* new and persisting hold current findings only, resolved holds prior entries
\* only.
C3_ResolverTrichotomy ==
    rs_result.done =>
        /\ NewFingerprints \cap PersistingFingerprints = {}
        /\ NewFingerprints \cap ResolvedFingerprints = {}
        /\ PersistingFingerprints \cap ResolvedFingerprints = {}
        /\ NewFingerprints \cup PersistingFingerprints \cup ResolvedFingerprints
              = CurrentFingerprints \cup PriorFingerprints
        /\ SeqRange(rs_result.new) \subseteq SeqRange(rs_current)
        /\ \A i \in 1..Len(rs_result.persisting) :
              rs_result.persisting[i].finding \in SeqRange(rs_current)
        /\ SeqRange(rs_result.resolved) \subseteq SeqRange(rs_prior)

\* A call that returned one finding or entry in each of the three lists
C3_Witness ==
    /\ rs_result.done
    /\ rs_result.new # <<>>
    /\ rs_result.persisting # <<>>
    /\ rs_result.resolved # <<>>

-----------------------------------------------------------------------------
(* Properties of parse_diff_lines (SpecDiff). *)

\* Every recorded line is the right-side number of a '+' or ' ' line inside a
\* hunk of that file
DiffResultSound ==
    \A f \in DOMAIN df_result :
        f \in DOMAIN df_truth /\ df_result[f] \subseteq df_truth[f]

\* Every '+' or ' ' line inside a hunk of a file has its right-side number
\* recorded for that file
DiffResultComplete ==
    \A f \in DOMAIN df_truth :
        f \in DOMAIN df_result /\ df_truth[f] \subseteq df_result[f]

C6_CompleteForWellFormedDiff == df_wellformed => DiffResultComplete

-----------------------------------------------------------------------------
(* Properties of classify_findings (SpecClassify). *)

\* the file is a key of the map and line_start is in that file's set
Addressable(finding) ==
    /\ finding.file \in DOMAIN cl_diff_lines
    /\ finding.line_start \in cl_diff_lines[finding.file]

NotAddressable(finding) == ~Addressable(finding)

\* C7: the inline list holds exactly the findings whose file is a key of the
\* map and whose line_start is in that file's set, the off-diff list holds the
\* others; each input finding appears exactly once, in input order.
C7_ClassifyPartition ==
    cl_result.done =>
        /\ cl_result.inline = SelectSeq(cl_findings, Addressable)
        /\ cl_result.off_diff = SelectSeq(cl_findings, NotAddressable)
        /\ Len(cl_result.inline) + Len(cl_result.off_diff) = Len(cl_findings)

\* One finding went inline, and one whose file is in the diff but whose line
\* is outside its hunks went off-diff
C7_Witness ==
    /\ cl_result.done
    /\ cl_result.inline # <<>>
    /\ \E i \in 1..Len(cl_result.off_diff) :
          /\ cl_result.off_diff[i].file \in DOMAIN cl_diff_lines
          /\ cl_diff_lines[cl_result.off_diff[i].file] # {}

-----------------------------------------------------------------------------
(* Properties of GrippyStore (SpecStore). *)

NoNodeStoredTwice ==
    \A i, j \in 1..Len(node_meta) :
        node_meta[i].node_id = node_meta[j].node_id => i = j

NoEdgeStoredTwice ==
    \A i, j \in 1..Len(edges) :
        (/\ edges[i].source_id = edges[j].source_id
         /\ edges[i].edge_type = edges[j].edge_type
         /\ edges[i].target_id = edges[j].target_id) => i = j

\* C8: storing a graph that was stored before leaves the edge rows and the
\* node-metadata rows as they were; no (source, edge type, target) triple and
\* no node identifier is ever stored twice.
C8_StoreReviewIdempotent ==
    /\ NoNodeStoredTwice
    /\ NoEdgeStoredTwice
    /\ (st_last_op.op = "store_review" /\ st_last_op.again) =>
          /\ node_meta = st_prev.node_meta
          /\ edges = st_prev.edges

\* The latest call stored, for the second time, a graph with edges
C8_Witness ==
    /\ st_last_op.op = "store_review"
    /\ st_last_op.again
    /\ Len(edges) >= 5
    /\ Len(node_meta) >= 5

\* The FINDING nodes stored under session S whose status is "open"
OpenFindingsOf(S) ==
    {n \in FindingNodeIds \cap DOMAIN st_first_session :
        st_first_session[n] = S /\ st_last_status[n] = "open"}

ReturnedIds(prior) == {prior[i].node_id : i \in 1..Len(prior)}

\* C9: after any sequence of store_review and update_finding_status calls,
\* get_prior_findings(session_id=S) returns all and only the FINDING nodes whose
\* stored session is S and whose status is "open", each once.
C9_PriorFindingsAreOpenOfSession ==
    \A S \in Sessions \cup {DefaultSession} :
        LET prior == GetPriorFindings(node_meta, S) IN
        /\ ReturnedIds(prior) = OpenFindingsOf(S)
        /\ Len(prior) = Cardinality(OpenFindingsOf(S))

\* One finding was resolved and is not returned; another, stored under the
\* other session, is open
C9_Witness ==
    \E n, m \in FindingNodeIds \cap DOMAIN st_first_session :
        /\ st_last_status[n] = "resolved"
        /\ st_last_status[m] = "open"
        /\ st_first_session[n] # st_first_session[m]
        /\ n \notin ReturnedIds(GetPriorFindings(node_meta, st_first_session[n]))
        /\ m \notin ReturnedIds(GetPriorFindings(node_meta, st_first_session[n]))

-----------------------------------------------------------------------------
(* Properties of main (SpecMain). *)

MainResolution == ResolveFindingsAgainstPrior(m_review.findings, m_prior)

\* main called update_finding_status(node_id, "resolved") on the store
MarkedResolved(nid) ==
    \E j \in 1..Len(m_store_calls) :
        /\ m_store_calls[j].method = "update_finding_status"
        /\ m_store_calls[j].node_id = nid
        /\ m_store_calls[j].status = "resolved"

\* C11: after a pipeline run on a PR, every prior finding the resolver
\* classified as resolved has been given the status "resolved" in the graph
\* store.
C11_ResolvedPriorsMarkedResolved ==
    (m_pc = "exited" /\ m_failure = "none") =>
        \A i \in 1..Len(MainResolution.resolved) :
            MarkedResolved(MainResolution.resolved[i].node_id)

FatalFailures == {"DiffFetchError", "ReviewParseError", "TimeoutError", "Exception"}

\* C15: after a diff fetch failure, a ReviewParseError, a TimeoutError or any
\* other exception of the agent run, main has attempted exactly one comment,
\* headed DIFF FETCH ERROR, PARSE ERROR, TIMEOUT or ERROR respectively, and has
\* exited with status 1, posted or not, with no graph persisted, no review
\* posted and no outputs written.
C15_FatalFailureCommentAndExit ==
    m_failure \in FatalFailures =>
        /\ m_pc = "exited"
        /\ m_exit = 1
        /\ Len(m_comments) = 1
        /\ m_comments[1].header =
              (CASE m_failure = "DiffFetchError" -> "DIFF FETCH ERROR"
                 [] m_failure = "ReviewParseError" -> "PARSE ERROR"
                 [] m_failure = "TimeoutError" -> "TIMEOUT"
                 [] m_failure = "Exception" -> "ERROR")
        /\ m_store_calls = <<>>
        /\ m_persist = "none"
        /\ ~m_outputs

\* The agent run timed out and the TIMEOUT comment could not be posted
C15_Witness ==
    /\ m_failure = "TimeoutError"
    /\ m_pc = "exited"
    /\ Len(m_comments) = 1
    /\ ~m_comments[1].posted

\* C16: on every run in which the agent produced a valid review, main exits
\* nonzero if and only if verdict.merge_blocking is true.
C16_ExitIffMergeBlocking ==
    (m_pc = "exited" /\ m_review.present) =>
        (m_exit # 0 <=> m_review.merge_blocking)

ReviewCommentAttempted == \E i \in 1..Len(m_comments) : m_comments[i].header = "REVIEW"

\* C17: when building or storing the graph raises, the run goes on: the
\* failure does not end it, the review is still handed to the PR, and a run
\* that nothing else fails writes the outputs and exits by the verdict alone.
C17_PersistFailureIsNotFatal ==
    m_persist = "failed" =>
        /\ m_pc \in {"post", "outputs", "exited"}
        /\ m_failure \in {"none", "PostError"}
        /\ m_pc = "post" => ENABLED PostReviewComment
        /\ m_pc \in {"outputs", "exited"} => ReviewCommentAttempted
        /\ (m_pc = "exited" /\ m_failure = "none") =>
              /\ m_outputs
              /\ m_exit = (IF m_review.merge_blocking THEN 1 ELSE 0)

\* store_review was called and raised; the review was posted, the outputs
\* written and the run exited 0 on a verdict that does not block
C17_Witness ==
    /\ m_persist = "failed"
    /\ m_store_calls # <<>>
    /\ m_pc = "exited"
    /\ m_failure = "none"
    /\ ReviewCommentAttempted
    /\ m_outputs
    /\ ~m_review.merge_blocking
    /\ m_exit = 0

\* C18: when posting the review fails, main attempts a fallback comment and
\* still writes the outputs and exits by the verdict.
C18_PostFailureFallsBack ==
    (m_pc = "exited" /\ m_failure = "PostError") =>
        /\ \E i \in 1..Len(m_comments) : m_comments[i].header = "FALLBACK"
        /\ m_outputs
        /\ m_exit = (IF m_review.merge_blocking THEN 1 ELSE 0)

\* C19: when the resolved transport is not valid, a CONFIG ERROR comment is
\* posted, the run exits nonzero and the agent is never run.
C19_InvalidTransportConfigError ==
    (m_pc = "exited" /\ m_failure = "ValueError") =>
        /\ \E i \in 1..Len(m_comments) : m_comments[i].header = "CONFIG ERROR"
        /\ m_exit # 0
        /\ ~m_review.present

-----------------------------------------------------------------------------
(* Properties of post_review (SpecPost). *)

\* The issue comments whose body contains the marker of this PR
MarkerComments ==
    {i \in 1..Len(po_comments) : MarkerIn(po_comments[i], po_pr_number)}

HeadIsForeignRepo == po_head_repo # "None" /\ po_head_repo # BaseRepo

\* C13: in a call on a PR whose head repository's full name differs from the
\* base's, create_review is never called, and the off-diff section of the
\* summary the call posts lists every finding, addressable or not.
C13_ForkNeverCreatesReview ==
    (po_calls >= 1 /\ HeadIsForeignRepo) =>
        /\ po_attempts = <<>>
        /\ ~ENABLED SubmitBatch
        /\ ~ENABLED SubmitBatch422
        /\ ~ENABLED SubmitBatchRaises
        /\ po_result = "returned" =>
            /\ po_summary.off_diff = po_findings
            /\ \A i \in MarkerComments : po_comments[i].off_diff = po_findings

\* A fork call with 51 findings, all on lines that a diff of the scenarios
\* adds, has returned
C13_Witness ==
    /\ HeadIsForeignRepo
    /\ po_result = "returned"
    /\ Len(po_findings) = 51
    /\ \A i \in 1..51 :
        po_findings[i].line_start \in ParseDiffLines(PostDiff(13))[<<"a">>]

RECURSIVE BatchesWith(_, _)
\* The findings of the attempts whose outcome is in outcomes, in order
BatchesWith(attempts, outcomes) ==
    IF attempts = <<>> THEN <<>>
    ELSE (IF Head(attempts).outcome \in outcomes THEN Head(attempts).batch ELSE <<>>)
         \o BatchesWith(Tail(attempts), outcomes)

\* The findings the classification of this call left off the diff
OffDiffAtStart ==
    SelectSeq(po_findings,
              LAMBDA f : \A i \in 1..Len(po_inline) : po_inline[i] # f)

\* C14: no batch has more than 25 comments; a call raises only at a
\* create_review error other than 422; a call that returned has submitted
\* every batch of its inline findings, those after a 422 included, and the
\* off-diff section of its summary is the off-diff findings followed by the
\* findings of exactly the batches that failed with 422.
C14_Batch422FallsBackToOffDiff ==
    /\ \A i \in 1..Len(po_attempts) :
        /\ Len(po_attempts[i].batch) >= 1
        /\ Len(po_attempts[i].batch) <= 25
    /\ po_result = "raised" =>
        po_attempts[Len(po_attempts)].outcome = "error"
    /\ po_result = "returned" =>
        /\ \A i \in 1..Len(po_attempts) : po_attempts[i].outcome # "error"
        /\ BatchesWith(po_attempts, {"ok", "422"}) = po_inline
        /\ po_summary.off_diff =
             OffDiffAtStart \o BatchesWith(po_attempts, {"422"})
        /\ \A i \in MarkerComments : po_comments[i] = po_summary

\* A call of three batches (25, 25 and 1 comments) has returned: one failed
\* with 422 and a later one was submitted
C14_Witness ==
    /\ po_result = "returned"
    /\ Len(po_attempts) = 3
    /\ Len(po_attempts[3].batch) = 1
    /\ \E i, j \in 1..3 :
        /\ i < j
        /\ po_attempts[i].outcome = "422"
        /\ po_attempts[j].outcome = "ok"
    /\ Len(po_summary.off_diff) = 25

-----------------------------------------------------------------------------
(* Properties of _with_timeout (SpecTimeout). *)

\* fn returned before the deadline of the call
FnCompletedBeforeDeadline ==
    tw_fn = "returned" /\ tw_fn_done_at < tw_deadline

\* fn had neither returned nor raised when the deadline expired
FnRunningAtDeadline == tw_fn = "aborted"

\* C20: with timeout_seconds > 0, a call of _with_timeout ends with
\* TimeoutError when fn had not completed at the deadline, and with fn's
\* result when fn returned before the deadline.
C20_TimeoutIffNotCompletedAtDeadline ==
    (tw_pc = "done" /\ tw_timeout > 0) =>
        /\ FnRunningAtDeadline => tw_outcome = "TimeoutError"
        /\ FnCompletedBeforeDeadline => tw_outcome = "result"


\* C21: after a call of _with_timeout with timeout_seconds > 0 has returned
\* or raised, the SIGALRM handler is the one installed before the call, no
\* alarm is set and no delivered alarm waits for its handler.
C21_SignalStateRestored ==
    (tw_pc = "done" /\ tw_timeout > 0) =>
        /\ tw_handler = OldHandler
        /\ tw_alarm = NoAlarm
        /\ ~tw_pending


-----------------------------------------------------------------------------
(* Properties of truncate_diff (SpecTruncate). *)

\* The file blocks of the diff: each runs from a 'diff --git ' at the start
\* of a line to just before the next one
RealFileBlocks == SplitBlocksFrom(td_diff, {"H"}, 1)

\* What precedes the first file block
RealPreamble == SplitPreamble(td_diff, {"H"})

\* C22: truncate_diff returns the diff unchanged when it is at most max_chars
\* long; otherwise it returns the preamble, then the first k complete file
\* blocks for some k, then (when blocks were dropped) a notice stating their
\* number N, with k + N the number of file blocks of the diff.
C22_TruncatesAtFileBlockBoundaries ==
    td_done =>
        IF TextLen(td_diff) <= td_max_chars
        THEN td_result = [body |-> td_diff, notice |-> <<>>]
        ELSE \E k \in 0..Len(RealFileBlocks) :
                /\ td_result.body =
                     RealPreamble \o ConcatTexts(SubSeq(RealFileBlocks, 1, k))
                /\ td_result.notice =
                     IF Len(RealFileBlocks) - k > 0
                     THEN <<Len(RealFileBlocks) - k, td_max_chars>>
                     ELSE <<>>


-----------------------------------------------------------------------------
(* Properties of review_to_graph (SpecGraph). *)

\* The FINDING nodes of the graph
GraphFindingNodes ==
    {i \in 1..Len(gr_graph.nodes) : gr_graph.nodes[i].type = "FINDING"}

\* The finding a FINDING node was made from: the first one with its identifier
FindingOfNode(n) ==
    gr_review.findings[
        CHOOSE i \in 1..Len(gr_review.findings) :
            /\ FindingNodeId(gr_review.findings[i]) = n.id
            /\ \A j \in 1..(i - 1) : FindingNodeId(gr_review.findings[j]) # n.id]

\* The edges of node n of the given type
EdgesOfType(n, type) == {k \in 1..Len(n.edges) : n.edges[k].type = type}

\* Every edge of node n of type type leads to a node of the graph whose type
\* is target_type
EdgesLeadTo(n, type, target_type) ==
    \A k \in EdgesOfType(n, type) :
        /\ n.edges[k].target_type = target_type
        /\ \E j \in 1..Len(gr_graph.nodes) :
            /\ gr_graph.nodes[j].id = n.edges[k].target_id
            /\ gr_graph.nodes[j].type = target_type

\* Node n has exactly one FOUND_IN edge, to a FILE node, exactly one FIXED_BY
\* edge, to a SUGGESTION node, and at most one VIOLATES edge, to a RULE node
FindingEdgesWellFormed(n) ==
    /\ Cardinality(EdgesOfType(n, "FOUND_IN")) = 1
    /\ EdgesLeadTo(n, "FOUND_IN", "FILE")
    /\ Cardinality(EdgesOfType(n, "FIXED_BY")) = 1
    /\ EdgesLeadTo(n, "FIXED_BY", "SUGGESTION")
    /\ Cardinality(EdgesOfType(n, "VIOLATES")) <= 1
    /\ EdgesLeadTo(n, "VIOLATES", "RULE")

\* C23 (as stated): every FINDING node has exactly one FOUND_IN edge to a
\* FILE node and exactly one FIXED_BY edge to a SUGGESTION node, and it has
\* a VIOLATES edge to a RULE node iff its finding's governance_rule_id is
\* not None.
C23_ViolatesIffRuleNotNone ==
    gr_done =>
        \A i \in GraphFindingNodes :
            /\ FindingEdgesWellFormed(gr_graph.nodes[i])
            /\ EdgesOfType(gr_graph.nodes[i], "VIOLATES") # {}
                 <=> FindingOfNode(gr_graph.nodes[i]).governance_rule_id # "None"

\* C23 (amended): the same, with a VIOLATES edge iff the governance_rule_id
\* is neither None nor the empty string.
C23_ViolatesIffRuleNonEmpty ==
    gr_done =>
        \A i \in GraphFindingNodes :
            /\ FindingEdgesWellFormed(gr_graph.nodes[i])
            /\ EdgesOfType(gr_graph.nodes[i], "VIOLATES") # {}
                 <=> FindingOfNode(gr_graph.nodes[i]).governance_rule_id
                        \notin {"None", ""}

\* A graph with two FINDING nodes: one with a VIOLATES edge, and one
\* without, made from a finding whose governance_rule_id is the empty string
C23_Witness ==
    /\ gr_done
    /\ \E i, j \in GraphFindingNodes :
        /\ EdgesOfType(gr_graph.nodes[i], "VIOLATES") # {}
        /\ EdgesOfType(gr_graph.nodes[j], "VIOLATES") = {}
        /\ FindingOfNode(gr_graph.nodes[j]).governance_rule_id = ""

\* C24: in the graph of a review, no two FINDING nodes carry the same
\* fingerprint: of the findings of the review that share a fingerprint only
\* the first one has a node.
C24_OneFindingNodePerFingerprint ==
    gr_done =>
        \A i, j \in GraphFindingNodes :
            gr_graph.nodes[i].properties.fingerprint
                = gr_graph.nodes[j].properties.fingerprint => i = j


-----------------------------------------------------------------------------
(* Properties of chunk_file (SpecChunk). *)

\* C27: for every text, max_chunk_chars >= 1 and overlap >= 0 (overlap >=
\* max_chunk_chars included), every iteration of the chunking loop moves
\* char_pos strictly forward and never past the end of the text, the overlap
\* in use is below max_chunk_chars, and the call returns.
C27_ChunkLoopAdvancesAndTerminates ==
    /\ [][ChunkIteration => (ck_pos' > ck_pos /\ ck_pos' <= Len(ck_text))]_vars
    /\ [](ck_pc = "loop" => (ck_overlap >= 0 /\ ck_overlap < ck_max))
    /\ <>(ck_pc = "done")

\* A call with overlap >= max_chunk_chars has returned more than one chunk
C27_Witness ==
    /\ ck_pc = "done"
    /\ ck_overlap_arg >= ck_max
    /\ ck_overlap = ck_max - 1
    /\ Len(ck_chunks) >= 2


-----------------------------------------------------------------------------
(* Properties of the read_file and list_files tools (SpecTools). *)

\* The canonical form of the requested path is under the canonical repo root
RequestIsUnderRoot ==
    LET target == ResolvePath(JoinRoot(ct_path))
    IN Len(target) >= Len(RepoRoot)
       /\ \A i \in 1..Len(RepoRoot) : target[i] = RepoRoot[i]

\* C28: a call of read_file or list_files with a path whose canonical form
\* is not under the canonical repo root returns the path-traversal error, and
\* so never the content or the listing of that path.
C28_OutsideRootIsRejected ==
    (ct_tool \in {"read_file", "list_files"} /\ ~RequestIsUnderRoot)
        => ct_result.kind = "Error: path traversal not allowed."


-----------------------------------------------------------------------------
(* Properties of get_author_tendencies (SpecStore). *)

\* The findings of the stored reviews of a PR author, by title and fingerprint
StoredFindingsOf(author) ==
    {[title |-> r.findings[i].title,
      fingerprint |-> Fingerprint(r.findings[i])] :
        <<r, i>> \in {<<r, i>> \in st_stored \X (1..MaxFindings) :
                        r.author = author /\ i <= Len(r.findings)}}

\* The findings get_author_tendencies returns, by title and fingerprint
TendenciesOf(author) ==
    LET res == GetAuthorTendencies(node_meta, author)
    IN {[title |-> res[i].title, fingerprint |-> res[i].fingerprint] :
            i \in 1..Len(res)}

\* C29: after any sequence of store_review calls, get_author_tendencies(a)
\* returns the findings of every stored review whose PR author is a, the first
\* and every later one, and no finding of a review by another author only.
C29_TendenciesCoverEveryReviewOfAuthor ==
    \A a \in {<<"x">>, <<"y">>} : TendenciesOf(a) = StoredFindingsOf(a)


-----------------------------------------------------------------------------
(* Properties of _write_append (SpecAppend). *)

\* The lines at which a block of the pack starts
StartsOfPack(lines, pack_name) ==
    {i \in 1..Len(lines) : lines[i] = MarkerStart(pack_name)}

\* The file holds the block of the pack with this content, whole
HoldsBlock(lines, rendered, pack_name) ==
    LET block == MarkerBlock(rendered, pack_name)
    IN \E i \in 1..Len(lines) :
        /\ i + Len(block) - 1 <= Len(lines)
        /\ SubSeq(lines, i, i + Len(block) - 1) = block

\* C30: after any sequence of appends by several packs to one file, the file
\* holds exactly one marker block per pack that appended, with the content of
\* that pack's most recent append, and the content outside the marker blocks
\* is the file's content before the first append.
C30_OneBlockPerPackWithLatestContent ==
    /\ \A p \in Packs :
        IF ap_latest[p].written
        THEN /\ Cardinality(StartsOfPack(ap_file.lines, p)) = 1
             /\ HoldsBlock(ap_file.lines, ap_latest[p].rendered, p)
        ELSE StartsOfPack(ap_file.lines, p) = {}
    /\ SelectSeq(ap_file.lines, LAMBDA l : l.kind = "text" /\ l.text = "u")
            = ap_initial


-----------------------------------------------------------------------------
(* The file header of parse_diff_lines (SpecDiff). *)

\* C31: a 'diff --git a/X b/Y' line that ends the hunk of the previous file
\* resets the right-line counter, so that no line after it is recorded with a
\* counter value left over from the previous file.
C31_FileHeaderResetsRightLine ==
    [][(df_in_hunk /\ ~df_in_hunk') =>
            (df_current_file' # NoFile /\ df_right_line' = 0)]_vars


-----------------------------------------------------------------------------
(* The messages run_review sends (SpecRetry). *)

\* C32: the first agent.run call gets the caller's message; the call of
\* attempt k + 1 gets the retry message built from the error of attempt k
\* alone; and after the last attempt has failed no retry message is built:
\* current_message is still the message that attempt was sent.
C32_RetryMessageFromLatestError ==
    /\ \A k \in 1..Len(sent_messages) :
        sent_messages[k] =
            IF k = 1 THEN UserMessage
            ELSE [kind |-> "retry", error |-> errors[k - 1][2], of |-> k - 1]
    /\ \A k \in 1..Len(errors) : errors[k][1] = k
    /\ (rr_pc = "loop" /\ attempt = max_retries + 2) =>
            current_message = sent_messages[Len(sent_messages)]

\* The third attempt was sent the message about the second error, which
\* differs from the first, and run_review gave up after it
C32_Witness ==
    /\ rr_pc = "raised"
    /\ Len(sent_messages) = 3
    /\ errors[1][2] # errors[2][2]
    /\ sent_messages[3] = [kind |-> "retry", error |-> errors[2][2], of |-> 2]
    /\ current_message = sent_messages[3]


-----------------------------------------------------------------------------
(* An exception of agent.run (SpecRetry). *)

\* C34: when agent.run itself raises, run_review ends with that exception:
\* it makes no further call, raises no ReviewParseError, and the raising call
\* adds no error and no callback invocation to those of the attempts before.
C34_AgentExceptionPropagates ==
    agent_raised =>
        /\ rr_pc = "propagated"
        /\ rr_result = "none"
        /\ exc_attempts = 0
        /\ calls = Len(sent_messages)
        /\ Len(errors) = calls - 1
        /\ Len(contents) = calls - 1
        /\ Len(callback_log) = IF has_callback THEN calls - 1 ELSE 0

\* agent.run raised on the second attempt of a run with a callback and
\* retries left
C34_Witness ==
    /\ agent_raised
    /\ has_callback
    /\ calls = 2
    /\ max_retries = 2
    /\ Len(callback_log) = 1


-----------------------------------------------------------------------------
(* Properties of CodebaseIndex.build (SpecIndex). *)

\* C33: after a build has returned n, the codebase chunk table holds exactly
\* the n chunks of that build and none of an earlier build, a build that
\* finds no chunks after one that found some included.
C33_TableHoldsChunksOfLastBuild ==
    (ix_builds > 0 /\ ix_last.returned) =>
        /\ ix_last.count = Len(ix_last.chunks)
        /\ ix_table.rows = ix_last.chunks


-----------------------------------------------------------------------------
(* store_review followed by get_prior_findings (SpecStore). *)

\* The identifiers of the FINDING nodes of the graph of a review
FindingIdsOfReview(review) ==
    LET nodes == ReviewToGraph(review).nodes
    IN {nodes[i].id : i \in {k \in 1..Len(nodes) : nodes[k].type = "FINDING"}}

\* C35: after store_review(graph, session_id=S) has returned, every FINDING
\* node of the graph is stored with status "open" under session S and is
\* returned by get_prior_findings(S), also when its identifier was in the store
\* before, resolved or under another session.
C35_StoredFindingsAreOpenInSession ==
    (st_last_store.called /\ st_last_store.returned) =>
        \A n \in FindingIdsOfReview(st_last_store.review) :
            /\ \E i \in 1..Len(node_meta) :
                /\ node_meta[i].node_id = n
                /\ node_meta[i].session_id = st_last_store.session_id
                /\ JsonLoads(node_meta[i].properties).status = "open"
            /\ n \in ReturnedIds(GetPriorFindings(node_meta,
                                                  st_last_store.session_id))


-----------------------------------------------------------------------------
(* Every finding of a post_review call is surfaced (SpecPost). *)

\* Number of occurrences of x in a list
CountIn(list, x) == Cardinality({i \in 1..Len(list) : list[i] = x})

\* C36: when a post_review call has returned, each input finding is surfaced
\* exactly once: as a comment of an inline batch that was submitted, or as an
\* entry of the off-diff section of the summary that was posted, never in both
\* and never in neither.
C36_EachFindingSurfacedOnce ==
    po_result = "returned" =>
        /\ \A k \in 1..Len(po_findings) :
            CountIn(BatchesWith(po_attempts, {"ok"}), po_findings[k])
              + CountIn(po_summary.off_diff, po_findings[k])
              = CountIn(po_findings, po_findings[k])
        /\ Len(BatchesWith(po_attempts, {"ok"})) + Len(po_summary.off_diff)
              = Len(po_findings)
        /\ \A i \in MarkerComments : po_comments[i].off_diff = po_summary.off_diff

\* A call with 51 inline findings has returned: a batch of 25 was submitted
\* and a batch of 25 failed with 422 and went to the summary
C36_Witness ==
    /\ po_result = "returned"
    /\ Len(po_findings) = 51
    /\ Len(po_attempts) = 3
    /\ po_attempts[1].outcome = "ok"
    /\ po_attempts[2].outcome = "422"
    /\ po_attempts[3].outcome = "ok"
    /\ Len(po_summary.off_diff) = 25
    /\ MarkerComments # {}


-----------------------------------------------------------------------------
(* The edges of a graph lead to its nodes (SpecGraph). *)

\* C37: in the graph review_to_graph returns, the target of every edge is the
\* identifier of a node of that graph whose type is the edge's target_type.
C37_NoDanglingEdge ==
    gr_done =>
        \A i \in 1..Len(gr_graph.nodes) :
            \A k \in 1..Len(gr_graph.nodes[i].edges) :
                \E j \in 1..Len(gr_graph.nodes) :
                    /\ gr_graph.nodes[j].id = gr_graph.nodes[i].edges[k].target_id
                    /\ gr_graph.nodes[j].type
                         = gr_graph.nodes[i].edges[k].target_type


\* C38: for every finding of the review, the graph holds a FINDING node whose
\* fingerprint property is that finding's fingerprint: no finding is dropped
\* because a finding with another fingerprint has its node identifier.
C38_EveryFingerprintHasNode ==
    gr_done =>
        \A k \in 1..Len(gr_review.findings) :
            \E i \in GraphFindingNodes :
                gr_graph.nodes[i].properties.fingerprint
                    = Fingerprint(gr_review.findings[k])


-----------------------------------------------------------------------------
(* The two tables of the store (SpecStore). *)

\* C39: after any sequence of store_review calls, those that raise while
\* embedding included, the node identifiers of the node-metadata table are
\* the node identifiers of the vector nodes table.
C39_MetaAndVectorTablesAgree ==
    {node_meta[i].node_id : i \in 1..Len(node_meta)} = SeqRange(nodes_table.ids)


-----------------------------------------------------------------------------
(* The length of a truncated diff (SpecTruncate). *)

\* C40: the text truncate_diff returns, the truncation notice not counted, is
\* at most max_chars characters long.
C40_TruncatedDiffWithinMaxChars ==
    td_done => TextLen(td_result.body) <= td_max_chars

====
